---- MODULE Spec2Model ----
(***************************************************************************)
(* A model of the SCSI to NVMe translation library (SNTL) of sg3_utils,    *)
(* lib/sg_snt.c: the Device Identification VPD page builder, the static    *)
(* mode pages, MODE SENSE(10), MODE SELECT(10), REPORT SUPPORTED OPERATION *)
(* CODES, REPORT SUPPORTED TASK MANAGEMENT FUNCTIONS, INQUIRY and REPORT   *)
(* LUNS.  Byte arrays are sequences; C index i is element i + 1.           *)
(***************************************************************************)
EXTENDS Integers, Sequences, FiniteSets, TLC

VARIABLES caching_m_pg,   \* static uint8_t caching_m_pg[]  (file scope)
          ctrl_m_pg,      \* static uint8_t ctrl_m_pg[]     (file scope)
          iec_m_pg,       \* static uint8_t iec_m_pg[]      (file scope)
          vs_ua_m_pg,     \* static uint8_t vs_ua_m_pg[]    (file scope)
          dev,            \* the caller-owned struct sg_snt_dev_state_t records
          hist,           \* history: per device, the pages it wrote last
          last            \* the most recent call: its inputs and its results

vars == <<caching_m_pg, ctrl_m_pg, iec_m_pg, vs_ua_m_pg, dev, hist, last>>

(***************************************************************************)
(* Bytes and byte arrays                                                   *)
(***************************************************************************)
RECURSIVE BitAnd(_, _)
BitAnd(a, b) ==
    IF a = 0 \/ b = 0 THEN 0
    ELSE (a % 2) * (b % 2) + 2 * BitAnd(a \div 2, b \div 2)

RECURSIVE BitOr(_, _)
BitOr(a, b) ==
    IF a = 0 THEN b
    ELSE IF b = 0 THEN a
    ELSE (IF a % 2 = 1 \/ b % 2 = 1 THEN 1 ELSE 0) + 2 * BitOr(a \div 2, b \div 2)

\* a & ~m
BitClear(a, m) == a - BitAnd(a, m)

Min(a, b) == IF a < b THEN a ELSE b

At(s, i) == s[i + 1]

Zeros(n) == [i \in 1..n |-> 0]

Fill(n, v) == [i \in 1..n |-> v]

Take(s, n) == SubSeq(s, 1, n)

\* memcpy(dst + off, src, n)
Memcpy(dst, off, src, n) ==
    IF n <= 0 \/ off >= Len(dst) THEN dst
    ELSE SubSeq(dst, 1, off) \o SubSeq(src, 1, Min(n, Len(dst) - off))
         \o SubSeq(dst, off + Min(n, Len(dst) - off) + 1, Len(dst))

\* dst[off] = v
SetAt(dst, off, v) == [dst EXCEPT ![off + 1] = v]

sg_get_unaligned_be16(s, i) == At(s, i) * 256 + At(s, i + 1)

sg_get_unaligned_be32(s, i) ==
    ((At(s, i) * 256 + At(s, i + 1)) * 256 + At(s, i + 2)) * 256 + At(s, i + 3)

sg_put_unaligned_be16(dst, off, v) ==
    Memcpy(dst, off, <<(v \div 256) % 256, v % 256>>, 2)

sg_put_unaligned_be32(dst, off, v) ==
    Memcpy(dst, off, <<(v \div 16777216) % 256, (v \div 65536) % 256,
                       (v \div 256) % 256, v % 256>>, 4)

sg_put_unaligned_be64(dst, off, v) ==
    sg_put_unaligned_be32(
        sg_put_unaligned_be32(dst, off, (v \div 65536) \div 65536),
        off + 4, v - ((v \div 65536) \div 65536) * 65536 * 65536)

(***************************************************************************)
(* The result / sense record, struct sg_snt_result_t                       *)
(***************************************************************************)
SAM_STAT_CHECK_CONDITION == 2
SPC_SK_ILLEGAL_REQUEST == 5
SAVING_PARAMS_UNSUP == 57
INVALID_FIELD_IN_CDB == 36
INVALID_FIELD_IN_PARAM_LIST == 38
PARAMETER_LIST_LENGTH_ERR == 26

\* memset(resp, 0, sizeof(*resp)); also the record a caller hands in
ZeroResp == [sstatus |-> 0, sk |-> 0, asc |-> 0, ascq |-> 0,
             in_byte |-> 0, in_bit |-> 0]

sg_snt_mk_sense_asc_ascq(sk, asc, ascq) ==
    [sstatus |-> SAM_STAT_CHECK_CONDITION, sk |-> sk % 256, asc |-> asc % 256,
     ascq |-> ascq % 256, in_byte |-> 0, in_bit |-> 255]

\* in_byte is a uint16_t and in_bit a uint8_t: the int arguments are converted
sg_snt_mk_sense_invalid_fld(in_cdb, in_byte, in_bit) ==
    [sstatus |-> SAM_STAT_CHECK_CONDITION, sk |-> SPC_SK_ILLEGAL_REQUEST,
     asc |-> IF in_cdb THEN INVALID_FIELD_IN_CDB ELSE INVALID_FIELD_IN_PARAM_LIST,
     ascq |-> 0, in_byte |-> in_byte % 65536, in_bit |-> in_bit % 256]

(***************************************************************************)
(* The mode pages                                                          *)
(***************************************************************************)
disconnect_pg == <<2, 14, 128, 128, 0, 10, 0, 0,  0, 0, 0, 0, 0, 0, 0, 0>>

caching_m_pg_init == <<8, 18, 20, 0, 255, 255, 0, 0,
                       255, 255, 255, 255, 128, 20, 0, 0,  0, 0, 0, 0>>
ch_caching_m_pg == <<4, 0, 0, 0, 0, 0,  0, 0, 0, 0, 0, 0, 0, 0, 0, 0, 0, 0>>
d_caching_m_pg == <<8, 18, 20, 0, 255, 255, 0, 0,
                    255, 255, 255, 255, 128, 20, 0, 0,  0, 0, 0, 0>>

ctrl_m_pg_init == <<10, 10, 2, 0, 0, 0, 0, 0,  0, 0, 2, 75>>
ch_ctrl_m_pg == <<6, 0, 0, 0, 0, 0,  0, 0, 0, 0>>
d_ctrl_m_pg == <<10, 10, 2, 0, 0, 0, 0, 0,  0, 0, 2, 75>>

ctrl_ext_m_pg == <<74, 1, 0, 28,  0, 0, 64, 0,  0, 0, 0, 0,  0, 0, 0, 0,
                   0, 0, 0, 0,  0, 0, 0, 0,  0, 0, 0, 0,  0, 0, 0, 0>>
ch_ctrl_ext_m_pg == <<0, 0, 0, 0,  0, 0, 0, 0,  0, 0, 0, 0,
                      0, 0, 0, 0,  0, 0, 0, 0,  0, 0, 0, 0,  0, 0, 0, 0>>
d_ctrl_ext_m_pg == <<74, 1, 0, 28,  0, 0, 64, 0,  0, 0, 0, 0,  0, 0, 0, 0,
                     0, 0, 0, 0,  0, 0, 0, 0,  0, 0, 0, 0,  0, 0, 0, 0>>

iec_m_pg_init == <<28, 10, 8, 0, 0, 0, 0, 0, 0, 0, 0, 0>>
ch_iec_m_pg == <<4, 15, 0, 0, 0, 0, 0, 0,  0, 0>>
d_iec_m_pg == <<28, 10, 8, 0, 0, 0, 0, 0, 0, 0, 0, 0>>

vs_ua_m_pg_init == <<0, 14, 0, 0, 0, 0, 0, 0,  0, 0, 0, 0, 0, 0, 0>>
ch_vs_ua_m_pg == <<255, 0, 0, 0, 0, 0,  0, 0, 0, 0, 0, 0, 0, 0>>
d_vs_ua_m_pg == <<0, 14, 0, 0, 0, 0, 0, 0,  0, 0, 0, 0, 0, 0, 0, 0>>

\* Each builder writes at arr + ap and returns the array and sizeof(its page).
resp_disconnect_pg(arr, ap, pcontrol) ==
    LET a1 == Memcpy(arr, ap, disconnect_pg, Len(disconnect_pg))
        a2 == IF pcontrol = 1
              THEN Memcpy(a1, ap + 2, Zeros(Len(disconnect_pg) - 2),
                          Len(disconnect_pg) - 2)
              ELSE a1
    IN  [arr |-> a2, len |-> Len(disconnect_pg)]

\* wce ? (x |= 0x4) : (x &= ~0x4)
WceBit(x, wce) == IF wce THEN BitOr(x, 4) ELSE BitClear(x, 4)

\* Also updates the static caching_m_pg (field pg) when pcontrol is 0 or 3.
resp_caching_m_pg(arr, ap, pcontrol, wce, pg) ==
    LET pg1 == IF pcontrol = 0 \/ pcontrol = 3
               THEN SetAt(pg, 2, WceBit(At(pg, 2), wce))
               ELSE pg
        a1 == Memcpy(arr, ap, pg1, Len(pg1))
        ch == SetAt(ch_caching_m_pg, 2, WceBit(At(ch_caching_m_pg, 2), wce))
        d  == SetAt(d_caching_m_pg, 2, WceBit(At(d_caching_m_pg, 2), wce))
        a2 == IF pcontrol = 1 THEN Memcpy(a1, ap + 2, ch, Len(ch))
              ELSE IF pcontrol = 2 THEN Memcpy(a1, ap, d, Len(d))
              ELSE a1
    IN  [arr |-> a2, len |-> Len(pg1), pg |-> pg1]

\* The shape shared by the Control, Control Extension, Informational
\* Exceptions and vendor Unit Attention builders: the current page, then
\* the changeable mask after its hdr header bytes, or the default page.
resp_page(arr, ap, pcontrol, pg, hdr, ch, d) ==
    LET a1 == Memcpy(arr, ap, pg, Len(pg))
        a2 == IF pcontrol = 1 THEN Memcpy(a1, ap + hdr, ch, Len(ch))
              ELSE IF pcontrol = 2 THEN Memcpy(a1, ap, d, Len(d))
              ELSE a1
    IN  [arr |-> a2, len |-> Len(pg)]

resp_ctrl_m_pg(arr, ap, pcontrol, pg) ==
    resp_page(arr, ap, pcontrol, pg, 2, ch_ctrl_m_pg, d_ctrl_m_pg)

resp_ctrl_ext_m_pg(arr, ap, pcontrol) ==
    resp_page(arr, ap, pcontrol, ctrl_ext_m_pg, 4, ch_ctrl_ext_m_pg, d_ctrl_ext_m_pg)

resp_iec_m_pg(arr, ap, pcontrol, pg) ==
    resp_page(arr, ap, pcontrol, pg, 2, ch_iec_m_pg, d_iec_m_pg)

resp_vs_ua_m_pg(arr, ap, pcontrol, pg) ==
    resp_page(arr, ap, pcontrol, pg, 2, ch_vs_ua_m_pg, d_vs_ua_m_pg)

(***************************************************************************)
(* Device state, struct sg_snt_dev_state_t                                 *)
(***************************************************************************)
\* The peripheral device types that sg_lib_pdt_decay() maps to the disk
\* class: disk, write-once, optical, RBC and ZBC.
DiskClassPdts == {0, 4, 7, 14, 20}

\* sg_pdt_s_eq(sg_lib_pdt_decay(dsp->pdt), PDT_DISK_ZBC)
IsDisk(pdt) == pdt \in DiskClassPdts

\* What sg_snt_init_dev_stat() stores, from the static pages
sg_snt_init_dev_stat(ds, ctl, vs) ==
    [ds EXCEPT !.scsi_dsense = IF BitAnd(At(ctl, 2), 4) # 0 THEN 1 ELSE 0,
               !.enclosure_override = At(vs, 2)]

(***************************************************************************)
(* MODE SENSE(10)                                                          *)
(***************************************************************************)
SG_PT_C_MAX_MSENSE_SZ == 256

\* The header and the block descriptor; returns the array and the offset.
SenseHeader(is_disk, bd_len) ==
    LET a0 == Zeros(SG_PT_C_MAX_MSENSE_SZ)
        a1 == SetAt(a0, 3, IF is_disk THEN 16 ELSE 0)
        a2 == IF bd_len = 16 THEN SetAt(a1, 4, 1) ELSE a1
        a3 == SetAt(a2, 7, bd_len)
        a4 == IF bd_len = 8
              THEN sg_put_unaligned_be16(sg_put_unaligned_be32(a3, 8, 1048576),
                                         8 + 6, 512)
              ELSE IF bd_len = 16
              THEN sg_put_unaligned_be32(sg_put_unaligned_be64(a3, 8, 1048576),
                                         8 + 12, 512)
              ELSE a3
    IN  [arr |-> a4, offset |-> 8 + bd_len]

\* offset += resp_..._pg(arr + offset, ...): the page q follows the pages r
AddPage(r, q) == [arr |-> q.arr, len |-> r.len + q.len, pg |-> r.pg]

\* The same for resp_caching_m_pg, which also stores into caching_m_pg
AddCachingPage(r, q) == [arr |-> q.arr, len |-> r.len + q.len, pg |-> q.pg]

\* case 0x3f with the Caching and Control pages in each other's place
AllPagesCtrlFirst(arr, ap, subpcode, pcontrol, is_disk, wce, cpg, ctl, iec, vs) ==
    LET P1(r) == AddPage(r, resp_disconnect_pg(r.arr, ap + r.len, pcontrol))
        P2(r) == AddPage(r, resp_ctrl_m_pg(r.arr, ap + r.len, pcontrol, ctl))
        P3(r) == IF is_disk
                 THEN AddCachingPage(r, resp_caching_m_pg(r.arr, ap + r.len,
                                                          pcontrol, wce, cpg))
                 ELSE r
        P4(r) == IF subpcode = 255
                 THEN AddPage(r, resp_ctrl_ext_m_pg(r.arr, ap + r.len, pcontrol))
                 ELSE r
        P5(r) == AddPage(r, resp_iec_m_pg(r.arr, ap + r.len, pcontrol, iec))
        P6(r) == AddPage(r, resp_vs_ua_m_pg(r.arr, ap + r.len, pcontrol, vs))
    IN  P6(P5(P4(P3(P2(P1([arr |-> arr, len |-> 0, pg |-> cpg]))))))

\* case 0x3f: every page, in the order of the calls
AllPages(arr, ap, subpcode, pcontrol, is_disk, wce, cpg, ctl, iec, vs) ==
    LET P1(r) == AddPage(r, resp_disconnect_pg(r.arr, ap + r.len, pcontrol))
        P2(r) == IF is_disk
                 THEN AddCachingPage(r, resp_caching_m_pg(r.arr, ap + r.len,
                                                          pcontrol, wce, cpg))
                 ELSE r
        P3(r) == AddPage(r, resp_ctrl_m_pg(r.arr, ap + r.len, pcontrol, ctl))
        P4(r) == IF subpcode = 255
                 THEN AddPage(r, resp_ctrl_ext_m_pg(r.arr, ap + r.len, pcontrol))
                 ELSE r
        P5(r) == AddPage(r, resp_iec_m_pg(r.arr, ap + r.len, pcontrol, iec))
        P6(r) == AddPage(r, resp_vs_ua_m_pg(r.arr, ap + r.len, pcontrol, vs))
    IN  P6(P5(P4(P3(P2(P1([arr |-> arr, len |-> 0, pg |-> cpg]))))))

\* The switch on pcode.  bad: 0 none, 1 bad_pcode, 2 the subpage of 0x3f.
SensePages(arr, ap, pcode, subpcode, pcontrol, is_disk, wce, cpg, ctl, iec, vs) ==
    LET none == [arr |-> arr, len |-> 0, pg |-> cpg, bad |-> 1]
        ok(r) == [arr |-> r.arr, len |-> r.len, pg |-> cpg, bad |-> 0]
    IN  CASE pcode = 2 ->
               IF subpcode = 0 THEN ok(resp_disconnect_pg(arr, ap, pcontrol))
               ELSE none
          [] pcode = 8 ->
               IF ~is_disk THEN none
               ELSE IF subpcode = 0
               THEN LET r == resp_caching_m_pg(arr, ap, pcontrol, wce, cpg)
                    IN  [arr |-> r.arr, len |-> r.len, pg |-> r.pg, bad |-> 0]
               ELSE none
          [] pcode = 10 ->
               IF subpcode = 0 THEN ok(resp_ctrl_m_pg(arr, ap, pcontrol, ctl))
               ELSE IF subpcode = 1 THEN ok(resp_ctrl_ext_m_pg(arr, ap, pcontrol))
               ELSE none
          [] pcode = 28 ->
               IF subpcode = 0 THEN ok(resp_iec_m_pg(arr, ap, pcontrol, iec))
               ELSE none
          [] pcode = 63 ->
               IF subpcode = 0 \/ subpcode = 255
               THEN LET r == AllPages(arr, ap, subpcode, pcontrol, is_disk,
                                      wce, cpg, ctl, iec, vs)
                    IN  [arr |-> r.arr, len |-> r.len, pg |-> r.pg, bad |-> 0]
               ELSE [arr |-> arr, len |-> 0, pg |-> cpg, bad |-> 2]
          [] pcode = 0 -> ok(resp_vs_ua_m_pg(arr, ap, pcontrol, vs))
          [] OTHER -> none

\* The test for saved values left out
SenseSavedNotTested(pcontrol) == pcontrol > 3

\* if (0x3 == pcontrol): saving values not supported
SenseSavedRejected(pcontrol) == pcontrol = 3

\* len = min(offset, alloc_len, mx_di_len)
SenseLen(offset, alloc_len, mx_di_len) ==
    LET len == IF alloc_len < offset THEN alloc_len ELSE offset
    IN  IF len < mx_di_len THEN len ELSE mx_di_len

\* The end of the function, after the switch: the mode data length, the
\* clamped length and the copy to dip
SenseFinish(p, offset, alloc_len, mx_di_len) ==
    [ret |-> SenseLen(offset, alloc_len, mx_di_len), resp |-> ZeroResp,
     out |-> Take(sg_put_unaligned_be16(p.arr, 0, offset - 2),
                  SenseLen(offset, alloc_len, mx_di_len)),
     pg |-> p.pg, offset |-> offset]

SenseSwitch(h, p, pcontrol, cpg, alloc_len, mx_di_len) ==
    LET fail(r) == [ret |-> -1, resp |-> r, out |-> <<>>, pg |-> cpg, offset |-> -1]
    IN  IF SenseSavedRejected(pcontrol)
        THEN fail(sg_snt_mk_sense_asc_ascq(SPC_SK_ILLEGAL_REQUEST,
                                           SAVING_PARAMS_UNSUP, 0))
        ELSE IF p.bad = 2 THEN fail(sg_snt_mk_sense_invalid_fld(TRUE, 3, 255))
        ELSE IF p.bad = 1 THEN fail(sg_snt_mk_sense_invalid_fld(TRUE, 2, 5))
        ELSE SenseFinish(p, h.offset + p.len, alloc_len, mx_di_len)

SenseBody(h, pcode, subpcode, pcontrol, is_disk, wce, cpg, ctl, iec, vs, alloc_len, mx_di_len) ==
    SenseSwitch(h, SensePages(h.arr, h.offset, pcode, subpcode, pcontrol,
                              is_disk, wce, cpg, ctl, iec, vs),
                pcontrol, cpg, alloc_len, mx_di_len)

\* Returns the value returned, resp, the bytes copied to dip, the static
\* caching page afterwards and the untruncated length (offset).
sg_snt_resp_mode_sense10(cpg, ctl, iec, vs, ds, cdbp, mx_di_len) ==
    LET dbd == BitAnd(At(cdbp, 1), 8) # 0
        pcontrol == BitAnd(At(cdbp, 2), 192) \div 64
        pcode == BitAnd(At(cdbp, 2), 63)
        subpcode == At(cdbp, 3)
        llbaa == BitAnd(At(cdbp, 1), 16) # 0
        is_disk == IsDisk(ds.pdt)
        bd_len == IF is_disk /\ ~dbd THEN (IF llbaa THEN 16 ELSE 8) ELSE 0
        alloc_len == sg_get_unaligned_be16(cdbp, 7)
    IN  SenseBody(SenseHeader(is_disk, bd_len), pcode, subpcode, pcontrol,
                  is_disk, ds.wce, cpg, ctl, iec, vs, alloc_len, mx_di_len)

(***************************************************************************)
(* MODE SELECT(10)                                                         *)
(***************************************************************************)
SG_PT_C_MAX_MSELECT_SZ == 512

\* arr[i] after memset(arr, 0, 512) and memcpy(arr, dop, rlen).  A read at
\* or beyond sizeof(arr) is undefined: it yields the byte und.
ArrAt(dop, rlen, i, und) ==
    IF i < rlen THEN At(dop, i)
    ELSE IF i < SG_PT_C_MAX_MSELECT_SZ THEN 0
    ELSE und

\* The n bytes arr[from .. from + n - 1]
ArrBytes(dop, rlen, from, n, und) ==
    [j \in 1..n |-> ArrAt(dop, rlen, from + j - 1, und)]

\* The first test without its SP term
SelectCdbCheckNoSp(pf, sp, param_len) ==
    IF pf = 0 \/ param_len > SG_PT_C_MAX_MSELECT_SZ
    THEN [bad |-> TRUE,
          in_byte |-> IF pf = 0 THEN 1 ELSE 7,
          in_bit |-> IF pf = 0 THEN 4 ELSE 255]
    ELSE [bad |-> FALSE, in_byte |-> 0, in_bit |-> 0]

\* The first test: PF, SP and the parameter list length
SelectCdbCheck(pf, sp, param_len) ==
    IF pf = 0 \/ sp # 0 \/ param_len > SG_PT_C_MAX_MSELECT_SZ
    THEN [bad |-> TRUE,
          in_byte |-> IF sp # 0 \/ pf = 0 THEN 1 ELSE 7,
          in_bit |-> IF sp # 0 THEN 0 ELSE IF pf = 0 THEN 4 ELSE 255]
    ELSE [bad |-> FALSE, in_byte |-> 0, in_bit |-> 0]

\* The switch on mpage: which static page is written, "none" when the
\* switch is left without a write and "reject" for def_case.  len1 is
\* arr[off + 1].
SelectSwitch(mpage, sub_mpage, len1, cpg, ctl, iec, vs) ==
    CASE mpage = 8 ->
           IF sub_mpage = 0 /\ At(cpg, 1) = len1 THEN "caching" ELSE "reject"
      [] mpage = 10 ->
           IF sub_mpage = 0 /\ At(ctl, 1) = len1 THEN "ctrl" ELSE "reject"
      [] mpage = 28 ->
           IF sub_mpage = 0 /\ At(iec, 1) = len1 THEN "iec" ELSE "reject"
      [] mpage = 0 ->
           IF At(vs, 1) = len1 THEN "vs_ua" ELSE "none"
      [] OTHER -> "reject"

\* memcpy(pg + 2, arr + off + 2, sizeof(pg) - 2)
SelectWrite(pg, dop, rlen, off, und) ==
    Memcpy(pg, 2, ArrBytes(dop, rlen, off + 2, Len(pg) - 2, und), Len(pg) - 2)

\* As sg_snt_resp_mode_select10, but checking the mode data length after
\* the page has been stored
sg_snt_resp_mode_select10_checks_last(cpg, ctl, iec, vs, ds, cdbp, dop, do_len, und) ==
    LET pf == BitAnd(At(cdbp, 1), 16)
        sp == BitAnd(At(cdbp, 1), 1)
        param_len == sg_get_unaligned_be16(cdbp, 7)
        chk == SelectCdbCheck(pf, sp, param_len)
        rlen == IF do_len < param_len THEN do_len ELSE param_len
        A(i) == ArrAt(dop, rlen, i, und[2])
        md_len == A(0) * 256 + A(1) + 2
        bd_len == A(6) * 256 + A(7)
        off == bd_len + 8
        b0 == ArrAt(dop, rlen, off, und[1])
        mpage == BitAnd(b0, 63)
        ps == BitAnd(b0, 128) # 0
        spf == BitAnd(b0, 64) # 0
        pg_len == IF spf THEN A(off + 2) * 256 + A(off + 3) + 4 ELSE A(off + 1) + 2
        sub_mpage == IF spf THEN A(off + 1) ELSE 0
        which == SelectSwitch(mpage, sub_mpage, A(off + 1), cpg, ctl, iec, vs)
        hdr_top == IF spf THEN off + 3 ELSE off + 1
        fail(r, used, top) ==
            [ret |-> -1, resp |-> r, cpg |-> cpg, ctl |-> ctl, iec |-> iec,
             vs |-> vs, ds |-> ds, wrote |-> "none", used |-> used, top |-> top,
             off |-> off]
        done(c, t, i, v, s, w, top) ==
            [ret |-> rlen, resp |-> ZeroResp, cpg |-> c, ctl |-> t, iec |-> i,
             vs |-> v, ds |-> s, wrote |-> w, used |-> rlen, top |-> top,
             off |-> off]
    IN  IF chk.bad
        THEN fail(sg_snt_mk_sense_invalid_fld(TRUE, chk.in_byte, chk.in_bit), 0, -1)
        ELSE LET r ==
                CASE which = "caching" ->
                          LET c == SelectWrite(cpg, dop, rlen, off, und[2])
                          IN  done(c, ctl, iec, vs,
                                   [ds EXCEPT !.wce = BitAnd(At(c, 2), 4) # 0,
                                              !.wce_changed = TRUE],
                                   which, off + Len(cpg) - 1)
                     [] which = "ctrl" ->
                          LET t == SelectWrite(ctl, dop, rlen, off, und[2])
                          IN  done(cpg, t, iec, vs,
                                   [ds EXCEPT !.scsi_dsense =
                                       IF BitAnd(At(t, 2), 4) # 0 THEN 1 ELSE 0],
                                   which, off + Len(ctl) - 1)
                     [] which = "iec" ->
                          LET i == SelectWrite(iec, dop, rlen, off, und[2])
                          IN  done(cpg, ctl, i, vs, ds, which, off + Len(iec) - 1)
                     [] which = "vs_ua" ->
                          LET v == SelectWrite(vs, dop, rlen, off, und[2])
                          IN  done(cpg, ctl, iec, v,
                                   [ds EXCEPT !.enclosure_override = At(v, 2)],
                                   which, off + Len(vs) - 1)
                     [] which = "none" ->
                          done(cpg, ctl, iec, vs, ds, which, hdr_top)
                     [] OTHER ->
                          fail(sg_snt_mk_sense_invalid_fld(FALSE, off, 5), rlen, hdr_top)
             IN  IF md_len > 2
                 THEN [r EXCEPT !.ret = -1,
                                !.resp = sg_snt_mk_sense_invalid_fld(FALSE, 0, 255)]
                 ELSE r

\* und = <<u0, u1>>: the byte an out of bounds read of arr[off] yields, and
\* the byte every other out of bounds read yields.
\* Returns the value returned, resp, the static pages and the device state
\* afterwards, the page written (wrote), the number of bytes copied from dop
\* (used) and the highest index of arr that was read (top, -1 for none).
sg_snt_resp_mode_select10(cpg, ctl, iec, vs, ds, cdbp, dop, do_len, und) ==
    LET pf == BitAnd(At(cdbp, 1), 16)
        sp == BitAnd(At(cdbp, 1), 1)
        param_len == sg_get_unaligned_be16(cdbp, 7)
        chk == SelectCdbCheck(pf, sp, param_len)
        rlen == IF do_len < param_len THEN do_len ELSE param_len
        A(i) == ArrAt(dop, rlen, i, und[2])
        md_len == A(0) * 256 + A(1) + 2
        bd_len == A(6) * 256 + A(7)
        off == bd_len + 8
        b0 == ArrAt(dop, rlen, off, und[1])
        mpage == BitAnd(b0, 63)
        ps == BitAnd(b0, 128) # 0
        spf == BitAnd(b0, 64) # 0
        pg_len == IF spf THEN A(off + 2) * 256 + A(off + 3) + 4 ELSE A(off + 1) + 2
        sub_mpage == IF spf THEN A(off + 1) ELSE 0
        which == SelectSwitch(mpage, sub_mpage, A(off + 1), cpg, ctl, iec, vs)
        hdr_top == IF spf THEN off + 3 ELSE off + 1
        fail(r, used, top) ==
            [ret |-> -1, resp |-> r, cpg |-> cpg, ctl |-> ctl, iec |-> iec,
             vs |-> vs, ds |-> ds, wrote |-> "none", used |-> used, top |-> top,
             off |-> off]
        done(c, t, i, v, s, w, top) ==
            [ret |-> rlen, resp |-> ZeroResp, cpg |-> c, ctl |-> t, iec |-> i,
             vs |-> v, ds |-> s, wrote |-> w, used |-> rlen, top |-> top,
             off |-> off]
    IN  IF chk.bad
        THEN fail(sg_snt_mk_sense_invalid_fld(TRUE, chk.in_byte, chk.in_bit), 0, -1)
        ELSE IF md_len > 2
        THEN fail(sg_snt_mk_sense_invalid_fld(FALSE, 0, 255), rlen, 7)
        ELSE IF ps
        THEN fail(sg_snt_mk_sense_invalid_fld(FALSE, off, 7), rlen, off)
        ELSE IF pg_len + off > param_len
        THEN fail(sg_snt_mk_sense_asc_ascq(SPC_SK_ILLEGAL_REQUEST,
                                           PARAMETER_LIST_LENGTH_ERR, 0),
                  rlen, hdr_top)
        ELSE CASE which = "caching" ->
                    LET c == SelectWrite(cpg, dop, rlen, off, und[2])
                    IN  done(c, ctl, iec, vs,
                             [ds EXCEPT !.wce = BitAnd(At(c, 2), 4) # 0,
                                        !.wce_changed = TRUE],
                             which, off + Len(cpg) - 1)
               [] which = "ctrl" ->
                    LET t == SelectWrite(ctl, dop, rlen, off, und[2])
                    IN  done(cpg, t, iec, vs,
                             [ds EXCEPT !.scsi_dsense =
                                 IF BitAnd(At(t, 2), 4) # 0 THEN 1 ELSE 0],
                             which, off + Len(ctl) - 1)
               [] which = "iec" ->
                    LET i == SelectWrite(iec, dop, rlen, off, und[2])
                    IN  done(cpg, ctl, i, vs, ds, which, off + Len(iec) - 1)
               [] which = "vs_ua" ->
                    LET v == SelectWrite(vs, dop, rlen, off, und[2])
                    IN  done(cpg, ctl, iec, v,
                             [ds EXCEPT !.enclosure_override = At(v, 2)],
                             which, off + Len(vs) - 1)
               [] which = "none" ->
                    done(cpg, ctl, iec, vs, ds, which, hdr_top)
               [] OTHER ->
                    fail(sg_snt_mk_sense_invalid_fld(FALSE, off, 5), rlen, hdr_top)

(***************************************************************************)
(* Device Identification VPD page (0x83) for NVMe                          *)
(***************************************************************************)
nvme_scsi_vendor_str == <<78, 86, 77, 101, 32, 32, 32, 32>>   \* "NVMe    "
eui_str == <<101, 117, 105, 46>>                              \* "eui."

\* A byte of the caller's buffer that the function has not written
Untouched == 0 - 1

\* The room modelled beyond max_di_len, to see a write that lands there
DipGuard == 64

\* One character of snprintf(b, sizeof(b), "%02X", byte)
HexDigit(d) == IF d < 10 THEN 48 + d ELSE 55 + d

\* The two digits of each byte in each other's place
HexStringSwapped(id) ==
    [j \in 1..(2 * Len(id)) |->
        IF j % 2 = 1 THEN HexDigit(id[(j + 1) \div 2] % 16)
        ELSE HexDigit(id[j \div 2] \div 16)]

\* The 2 * Len(id) characters written by the "%02X" loop
HexString(id) ==
    [j \in 1..(2 * Len(id)) |->
        IF j % 2 = 1 THEN HexDigit(id[(j + 1) \div 2] \div 16)
        ELSE HexDigit(id[j \div 2] % 16)]

sg_all_zeros(b) == \A i \in 1..Len(b) : b[i] = 0

\* for (k = from; k > 0; --k) if (' ' == dip[base + k]) ... else break;
RECURSIVE TrailingK(_, _, _)
TrailingK(dip, base, k) ==
    IF k > 0 /\ At(dip, base + k) = 32 THEN TrailingK(dip, base, k - 1) ELSE k

\* dip[base + j] = v for k < j <= upto
Overwrite(dip, base, k, upto, v) ==
    Memcpy(dip, base + k + 1, Fill(upto - k, v), upto - k)

\* if (0 != (n % 4)) n = ((n / 4) + 1) * 4;
RoundUp4(n) == IF n % 4 # 0 THEN ((n \div 4) + 1) * 4 ELSE n

\* The binary EUI designator and the SCSI name string designator built from
\* the identifier id (NGUID or EUI64), each behind its own capacity test.
\* stop names the return statement taken.
DevidAppendEui(dip, n, id, max_di_len) ==
    LET sz == Len(id)
        d1 == SetAt(SetAt(SetAt(dip, n, 1), n + 1, 2), n + 3, sz)
        d2 == Memcpy(d1, n + 4, id, sz)
        n2 == n + 4 + sz
        d3 == SetAt(SetAt(SetAt(d2, n2, 3), n2 + 1, 8), n2 + 3, 4 + 2 * sz)
        d4 == Memcpy(d3, n2 + 4, eui_str, 4)
        d5 == Memcpy(d4, n2 + 8, HexString(id), 2 * sz)
    IN  IF max_di_len < n + 4 + sz
        THEN [ret |-> n, dip |-> dip, stop |-> "eui", n |-> n]
        ELSE IF max_di_len < n2 + 8 + 2 * sz
        THEN [ret |-> n2, dip |-> d2, stop |-> "name", n |-> n2]
        ELSE [ret |-> n2 + 8 + 2 * sz, dip |-> d5, stop |-> "full",
              n |-> n2 + 8 + 2 * sz]

\* The test made before the serial number is copied
DevidSnFits(n, max_di_len) == ~(max_di_len < n + 20)

\* ctl: the Identify controller fields mn (40 bytes) and sn (20 bytes)
\* ns: present (FALSE for a NULL pointer), nguid (16 bytes), eui64 (8 bytes)
\* buf: the caller's buffer before the call
\* Returns the value returned, the buffer afterwards, the return statement
\* taken (stop) and the value of the cursor n there.
sg_make_vpd_devid_for_nvme(ctl, ns, pdt, tproto, buf, max_di_len) ==
    LET d0 == Memcpy(buf, 0, Zeros(max_di_len), max_di_len)
        d1 == SetAt(SetAt(d0, 0, BitAnd(31, pdt)), 1, 131)
        d2 == IF tproto >= 0
              THEN SetAt(SetAt(d1, 4, BitOr(BitAnd(15, tproto) * 16, 2)), 5, 161)
              ELSE SetAt(SetAt(d1, 4, 2), 5, 33)
        d3 == Memcpy(d2, 8, nvme_scsi_vendor_str, 8)
        d4 == Memcpy(d3, 16, ctl.mn, 40)
        k1 == TrailingK(d4, 15, 40)
        d5 == Overwrite(d4, 15, k1, 40, 95)
        k2 == IF k1 = 40 THEN 39 ELSE k1
        n1 == 16 + 1 + k2
        d6 == Memcpy(d5, n1, ctl.sn, 20)
        k3 == TrailingK(d6, n1 - 1, 20)
        d7 == Overwrite(d6, n1 - 1, k3, 20, 0)
        n2 == RoundUp4(n1 + k3)
        d8 == SetAt(d7, 7, (n2 - 8) % 256)
        have_nguid == ~sg_all_zeros(ns.nguid)
        have_eui64 == ~sg_all_zeros(ns.eui64)
    IN  IF max_di_len < 56
        THEN [ret |-> 0, dip |-> buf, stop |-> "arg", n |-> 0]
        ELSE IF ~DevidSnFits(n1, max_di_len)
        THEN [ret |-> 0, dip |-> d5, stop |-> "sn", n |-> n1]
        ELSE IF ~ns.present
        THEN [ret |-> n2, dip |-> d8, stop |-> "nons", n |-> n2]
        ELSE IF ~have_nguid /\ ~have_eui64
        THEN [ret |-> n2, dip |-> d8, stop |-> "noid", n |-> n2]
        ELSE IF have_nguid
        THEN DevidAppendEui(d8, n2, ns.nguid, max_di_len)
        ELSE DevidAppendEui(d8, n2, ns.eui64, max_di_len)

(***************************************************************************)
(* REPORT SUPPORTED OPERATION CODES                                        *)
(***************************************************************************)
F_SA_LOW == 128
F_SA_HIGH == 256
FF_SA == F_SA_HIGH + F_SA_LOW
F_INV_OP == 512
F_NEED_TS_SUP == 1048576
SENTINEL_FLAGS == 65535

\* The table of SCSI commands translated to NVMe; the last row is the sentinel
sg_opcode_info_arr == <<
    [doc_pdt |-> -1, opcode |-> 0, sa |-> 0, flags |-> 0,
     len_mask |-> <<6, 0, 0, 0, 0, 199, 0, 0, 0, 0, 0, 0, 0, 0, 0, 0>>],
    [doc_pdt |-> -1, opcode |-> 3, sa |-> 0, flags |-> 0,
     len_mask |-> <<6, 225, 0, 0, 255, 199, 0, 0, 0, 0, 0, 0, 0, 0, 0, 0>>],
    [doc_pdt |-> -1, opcode |-> 18, sa |-> 0, flags |-> 0,
     len_mask |-> <<6, 227, 255, 255, 255, 199, 0, 0, 0, 0, 0, 0, 0, 0, 0, 0>>],
    [doc_pdt |-> 0, opcode |-> 27, sa |-> 0, flags |-> 0,
     len_mask |-> <<6, 1, 0, 15, 247, 199, 0, 0, 0, 0, 0, 0, 0, 0, 0, 0>>],
    [doc_pdt |-> -1, opcode |-> 28, sa |-> 0, flags |-> 0,
     len_mask |-> <<6, 1, 255, 255, 255, 199, 0, 0, 0, 0, 0, 0, 0, 0, 0, 0>>],
    [doc_pdt |-> -1, opcode |-> 29, sa |-> 0, flags |-> 0,
     len_mask |-> <<6, 247, 0, 255, 255, 199, 0, 0, 0, 0, 0, 0, 0, 0, 0, 0>>],
    [doc_pdt |-> 0, opcode |-> 37, sa |-> 0, flags |-> 0,
     len_mask |-> <<10, 1, 255, 255, 255, 255, 0, 0, 1, 199, 0, 0, 0, 0, 0, 0>>],
    [doc_pdt |-> 0, opcode |-> 40, sa |-> 0, flags |-> 0,
     len_mask |-> <<10, 255, 255, 255, 255, 255, 63, 255, 255, 199, 0, 0, 0, 0, 0, 0>>],
    [doc_pdt |-> 0, opcode |-> 42, sa |-> 0, flags |-> 0,
     len_mask |-> <<10, 251, 255, 255, 255, 255, 63, 255, 255, 199, 0, 0, 0, 0, 0, 0>>],
    [doc_pdt |-> 0, opcode |-> 47, sa |-> 0, flags |-> 0,
     len_mask |-> <<10, 246, 255, 255, 255, 255, 63, 255, 255, 199, 0, 0, 0, 0, 0, 0>>],
    [doc_pdt |-> 0, opcode |-> 53, sa |-> 0, flags |-> 0,
     len_mask |-> <<10, 7, 255, 255, 255, 255, 63, 255, 255, 199, 0, 0, 0, 0, 0, 0>>],
    [doc_pdt |-> 0, opcode |-> 65, sa |-> 0, flags |-> 0,
     len_mask |-> <<10, 255, 255, 255, 255, 255, 63, 255, 255, 199, 0, 0, 0, 0, 0, 0>>],
    [doc_pdt |-> -1, opcode |-> 85, sa |-> 0, flags |-> 0,
     len_mask |-> <<10, 19, 0, 0, 0, 0, 0, 255, 255, 199, 0, 0, 0, 0, 0, 0>>],
    [doc_pdt |-> -1, opcode |-> 90, sa |-> 0, flags |-> 0,
     len_mask |-> <<10, 24, 255, 255, 0, 0, 0, 255, 255, 199, 0, 0, 0, 0, 0, 0>>],
    [doc_pdt |-> 0, opcode |-> 136, sa |-> 0, flags |-> 0,
     len_mask |-> <<16, 255, 255, 255, 255, 255, 255, 255, 255, 255, 255, 255, 255, 255, 255, 199>>],
    [doc_pdt |-> 0, opcode |-> 138, sa |-> 0, flags |-> 0,
     len_mask |-> <<16, 251, 255, 255, 255, 255, 255, 255, 255, 255, 255, 255, 255, 255, 255, 199>>],
    [doc_pdt |-> 0, opcode |-> 143, sa |-> 0, flags |-> 0,
     len_mask |-> <<16, 246, 255, 255, 255, 255, 255, 255, 255, 255, 255, 255, 255, 255, 63, 199>>],
    [doc_pdt |-> 0, opcode |-> 145, sa |-> 0, flags |-> 0,
     len_mask |-> <<16, 7, 255, 255, 255, 255, 255, 255, 255, 255, 255, 255, 255, 255, 63, 199>>],
    [doc_pdt |-> 0, opcode |-> 147, sa |-> 0, flags |-> 0,
     len_mask |-> <<16, 255, 255, 255, 255, 255, 255, 255, 255, 255, 255, 255, 255, 255, 63, 199>>],
    [doc_pdt |-> 0, opcode |-> 158, sa |-> 16, flags |-> 128,
     len_mask |-> <<16, 16, 255, 255, 255, 255, 255, 255, 255, 255, 255, 255, 255, 255, 1, 199>>],
    [doc_pdt |-> -1, opcode |-> 160, sa |-> 0, flags |-> 0,
     len_mask |-> <<12, 227, 255, 0, 0, 0, 255, 255, 255, 255, 0, 199, 0, 0, 0, 0>>],
    [doc_pdt |-> -1, opcode |-> 163, sa |-> 12, flags |-> 128,
     len_mask |-> <<12, 12, 135, 255, 255, 255, 255, 255, 255, 255, 0, 199, 0, 0, 0, 0>>],
    [doc_pdt |-> -1, opcode |-> 163, sa |-> 13, flags |-> 128,
     len_mask |-> <<12, 13, 128, 0, 0, 0, 255, 255, 255, 255, 0, 199, 0, 0, 0, 0>>],
    [doc_pdt |-> -1, opcode |-> 163, sa |-> 15, flags |-> 1048704,
     len_mask |-> <<12, 15, 0, 0, 0, 0, 255, 255, 255, 255, 0, 199, 0, 0, 0, 0>>],
    [doc_pdt |-> -1, opcode |-> 164, sa |-> 15, flags |-> 1048704,
     len_mask |-> <<12, 15, 0, 0, 0, 0, 255, 255, 255, 255, 0, 199, 0, 0, 0, 0>>],
    [doc_pdt |-> -127, opcode |-> 255, sa |-> 65535, flags |-> 65535,
     len_mask |-> <<0, 0, 0, 0, 0, 0, 0, 0, 0, 0, 0, 0, 0, 0, 0, 0>>]
>>

\* Whether one of the bits of mask is set in flags
HasFlag(flags, mask) == BitAnd(flags, mask) # 0

\* The scan comparing the opcode only
RECURSIVE OpcodeScanOpcodeOnly(_, _, _)
OpcodeScanOpcodeOnly(i, req_opcode, req_sa) ==
    LET oip == sg_opcode_info_arr[i]
    IN  IF oip.flags = SENTINEL_FLAGS THEN i
        ELSE IF req_opcode = oip.opcode THEN i
        ELSE OpcodeScanOpcodeOnly(i + 1, req_opcode, req_sa)

\* The index of the row the one command scan stops at: the first row with
\* the opcode and service action asked for, else the sentinel row
RECURSIVE OpcodeScan(_, _, _)
OpcodeScan(i, req_opcode, req_sa) ==
    LET oip == sg_opcode_info_arr[i]
    IN  IF oip.flags = SENTINEL_FLAGS THEN i
        ELSE IF req_opcode = oip.opcode /\ req_sa = oip.sa THEN i
        ELSE OpcodeScan(i + 1, req_opcode, req_sa)

\* One descriptor of the all commands response (bump bytes)
OpcodeDescriptor(oip, rctd) ==
    LET b0 == Zeros(IF rctd THEN 20 ELSE 8)
        b1 == SetAt(b0, 0, oip.opcode)
        b2 == sg_put_unaligned_be16(b1, 2, oip.sa)
        b3 == SetAt(b2, 5, (IF rctd THEN 2 ELSE 0)
                           + (IF HasFlag(oip.flags, FF_SA) THEN 1 ELSE 0))
        b4 == sg_put_unaligned_be16(b3, 6, oip.len_mask[1])
    IN  IF rctd THEN sg_put_unaligned_be16(b4, 8, 10) ELSE b4

\* The all commands loop from row i on: the descriptors written while
\* offset < a_len, the rows marked F_INV_OP left out
RECURSIVE AllCommands(_, _, _, _)
AllCommands(i, offset, a_len, rctd) ==
    LET oip == sg_opcode_info_arr[i]
        bump == IF rctd THEN 20 ELSE 8
    IN  IF oip.flags = SENTINEL_FLAGS \/ ~(offset < a_len) THEN <<>>
        ELSE IF HasFlag(oip.flags, F_INV_OP)
        THEN AllCommands(i + 1, offset, a_len, rctd)
        ELSE OpcodeDescriptor(oip, rctd)
             \o AllCommands(i + 1, offset + bump, a_len, rctd)

\* The one command response for a supported row: the header and the CDB
\* usage data, 4 + len_mask[0] bytes
OneCommandUsage(oip) ==
    LET u == oip.len_mask[1]
    IN  <<0, 0, (u \div 256) % 256, u % 256, oip.opcode>>
        \o [k \in 1..(u - 1) |-> IF k < 16 THEN oip.len_mask[k + 1] ELSE 255]

\* The command timeouts descriptor of the one command response
TimeoutsDescriptor == <<0, 10, 0, 0, 0, 0, 0, 0, 0, 0, 0, 0>>

\* The system page size, sg_get_page_size()
pg_sz == 4096

\* sg_convert_errno(ENOMEM), returned when sg_memalign() fails
ENOMEM_RETURN == 62

\* offset = min(offset, a_len); len = min(offset, alloc_len, mx_di_len)
OpcodesLen(offset, a_len, alloc_len, mx_di_len) ==
    LET o == IF offset < a_len THEN offset ELSE a_len
        len == IF o < alloc_len THEN o ELSE alloc_len
    IN  IF len < mx_di_len THEN len ELSE mx_di_len

\* mem_ok: whether sg_memalign() returns memory.  resp0 is the caller's resp.
\* Returns the value returned, resp, the bytes copied to dip and the
\* untruncated length (offset).
sg_snt_resp_rep_opcodes(cdbp, mx_di_len, mem_ok, resp0) ==
    LET rctd == BitAnd(At(cdbp, 2), 128) # 0
        reporting_opts == BitAnd(At(cdbp, 2), 7)
        req_opcode == At(cdbp, 3)
        req_sa == sg_get_unaligned_be16(cdbp, 4)
        alloc_len == sg_get_unaligned_be32(cdbp, 6)
        a_len == pg_sz - 72
        fail(r) == [ret |-> -1, resp |-> r, out |-> <<>>, offset |-> -1]
        finish(arr) ==
            LET len == OpcodesLen(Len(arr), a_len, alloc_len, mx_di_len)
            IN  [ret |-> len, resp |-> resp0,
                 out |-> IF len > 0 THEN Take(arr, len) ELSE <<>>,
                 offset |-> Len(arr)]
        all == AllCommands(1, 4, a_len, rctd)
        oip == sg_opcode_info_arr[OpcodeScan(1, req_opcode, req_sa)]
        missing == oip.flags = SENTINEL_FLAGS \/ HasFlag(oip.flags, F_INV_OP)
        has_sa == HasFlag(oip.flags, FF_SA)
        \* after "req_sa = 0" for reporting option 1, which has_sa excludes
        supp == IF missing THEN 1
                ELSE IF ~has_sa /\ req_opcode = oip.opcode THEN 3
                ELSE IF ~has_sa THEN 1
                ELSE IF req_sa # oip.sa THEN 1
                ELSE 3
        body == IF supp = 3 THEN OneCommandUsage(oip) ELSE <<0, 0, 0, 0>>
        one == SetAt(body, 1, (IF rctd THEN 128 ELSE 0) + supp)
               \o (IF rctd THEN TimeoutsDescriptor ELSE <<>>)
    IN  IF alloc_len < 4 \/ alloc_len > 65535
        THEN fail(sg_snt_mk_sense_invalid_fld(TRUE, 6, 255))
        ELSE IF ~mem_ok
        THEN [ret |-> ENOMEM_RETURN, resp |-> resp0, out |-> <<>>, offset |-> -1]
        ELSE IF reporting_opts = 0
        THEN finish(sg_put_unaligned_be32(<<0, 0, 0, 0>>, 0, Len(all)) \o all)
        ELSE IF reporting_opts \in {1, 2, 3}
        THEN IF ~missing /\ reporting_opts = 1 /\ has_sa
             THEN fail(sg_snt_mk_sense_invalid_fld(TRUE, 2, 2))
             ELSE IF ~missing /\ reporting_opts = 2 /\ ~has_sa
             THEN fail(sg_snt_mk_sense_invalid_fld(TRUE, 4, -1))
             ELSE finish(one)
        ELSE fail(sg_snt_mk_sense_invalid_fld(TRUE, 2, 2))

(***************************************************************************)
(* REPORT SUPPORTED TASK MANAGEMENT FUNCTIONS                              *)
(***************************************************************************)
\* int alloc_len = sg_get_unaligned_be32(p): the conversion of the uint32_t
\* to int on a two's complement build, a top bit set giving a negative int
ToInt32(s, i) ==
    (((IF At(s, i) >= 128 THEN At(s, i) - 256 ELSE At(s, i)) * 256
      + At(s, i + 1)) * 256 + At(s, i + 2)) * 256 + At(s, i + 3)

\* len = min(len, alloc_len, mx_di_len)
TmfsLen(len, alloc_len, mx_di_len) ==
    LET l == IF len < alloc_len THEN len ELSE alloc_len
    IN  IF l < mx_di_len THEN l ELSE mx_di_len

sg_snt_resp_rep_tmfs(cdbp, mx_di_len, resp0) ==
    LET repd == BitAnd(At(cdbp, 2), 128) # 0
        alloc_len == ToInt32(cdbp, 6)
        a0 == SetAt(SetAt(Zeros(16), 0, 200), 1, 1)
        arr == IF repd THEN SetAt(a0, 3, 12) ELSE a0
        nat == IF repd THEN 16 ELSE 4
        len == TmfsLen(nat, alloc_len, mx_di_len)
    IN  IF alloc_len < 4
        THEN [ret |-> -1, resp |-> sg_snt_mk_sense_invalid_fld(TRUE, 6, 255),
              out |-> <<>>, offset |-> -1]
        ELSE [ret |-> len, resp |-> resp0,
              out |-> IF len > 0 THEN Take(arr, len) ELSE <<>>,
              offset |-> nat]

(***************************************************************************)
(* INQUIRY                                                                 *)
(***************************************************************************)
\* Byte i of the 4096 byte Identify controller response, given its fields:
\* SN (4..23), MN (24..63), FR (64..71), CMIC (76) and NN (516..519, little
\* endian); every other byte is zero.
IdCtlByte(ctl, i) ==
    IF i >= 4 /\ i < 24 THEN ctl.sn[i - 3]
    ELSE IF i >= 24 /\ i < 64 THEN ctl.mn[i - 23]
    ELSE IF i >= 64 /\ i < 72 THEN ctl.fr[i - 63]
    ELSE IF i = 76 THEN ctl.cmic
    ELSE IF i = 516 THEN ctl.nn % 256
    ELSE IF i = 517 THEN (ctl.nn \div 256) % 256
    ELSE IF i = 518 THEN (ctl.nn \div 65536) % 256
    ELSE IF i = 519 THEN (ctl.nn \div 16777216) % 256
    ELSE 0

\* sg_get_unaligned_le32(nvme_id_ctlp + i)
IdCtlLe32(ctl, i) ==
    IdCtlByte(ctl, i) + 256 * IdCtlByte(ctl, i + 1)
    + 65536 * IdCtlByte(ctl, i + 2) + 16777216 * IdCtlByte(ctl, i + 3)

\* The number of characters of s before its trailing blanks
RECURSIVE NonBlankLen(_, _)
NonBlankLen(s, k) == IF k > 0 /\ s[k] = 32 THEN NonBlankLen(s, k - 1) ELSE k

\* sg_last_n_non_blank(b, 4, ...): the last 4 characters of the firmware
\* revision once its trailing blanks are dropped
sg_last_n_non_blank(fr) ==
    LET e == NonBlankLen(fr, Len(fr))
    IN  IF e >= 4 THEN SubSeq(fr, e - 3, e) ELSE SubSeq(fr, 1, 4)

inq_resp_len == 74
PDT_SES == 13
PDT_UNKNOWN == 31
SG_NVME_VPD_NICR == 222

\* The version descriptors written at byte 58: the three of the table, then
\* the one that the device type selects at the sentinel
StdInqVersDesc(pdt) ==
    <<0, 194, 5, 194, 31, 96>>
    \o (IF pdt = PDT_SES THEN <<6, 130>>
        ELSE IF pdt = PDT_UNKNOWN THEN <<>>
        ELSE <<6, 2>>)

\* The 74 byte standard INQUIRY response
sg_snt_std_inq(ctl, pdt, enc_serv) ==
    LET a0 == Zeros(inq_resp_len)
        a1 == SetAt(a0, 0, BitAnd(31, pdt))
        a2 == SetAt(SetAt(SetAt(a1, 2, 7), 3, 2), 4, inq_resp_len - 5)
        a3 == SetAt(a2, 6, (IF enc_serv # 0 THEN 64 ELSE 0)
                           + (IF BitAnd(1, ctl.cmic) # 0 THEN 16 ELSE 0))
        a4 == SetAt(a3, 7, 2)
        a5 == Memcpy(a4, 8, nvme_scsi_vendor_str, 8)
        a6 == Memcpy(a5, 16, ctl.mn, 16)
        a7 == Memcpy(a6, 32, sg_last_n_non_blank(ctl.fr), 4)
        vd == StdInqVersDesc(pdt)
    IN  Memcpy(a7, 58, vd, Len(vd))

\* The VPD pages built in inq_din; natural length n.  nicr: the page whose
\* tail is the Identify controller response itself.
InqVpd(pg_cd, ctl, ns, pdt) ==
    LET z == Zeros(256)
        hdr(n) == sg_put_unaligned_be16(SetAt(z, 1, pg_cd), 2, n - 4)
        page(a, n) == [ok |-> TRUE, din |-> a, n |-> n, nicr |-> FALSE]
        di == sg_make_vpd_devid_for_nvme(ctl, ns, pdt, -1, z, 256)
    IN  CASE pg_cd = 0 ->
               page(Memcpy(hdr(12), 4,
                           <<0, 128, 131, 134, 135, 146, 177, SG_NVME_VPD_NICR>>,
                           8), 12)
          [] pg_cd = 128 -> page(Memcpy(hdr(24), 4, ctl.sn, 20), 24)
          [] pg_cd = 131 ->
               page(IF di.ret > 3
                    THEN sg_put_unaligned_be16(di.dip, 2, di.ret - 4)
                    ELSE di.dip, di.ret)
          [] pg_cd = 134 ->
               page(SetAt(SetAt(SetAt(hdr(64), 5, 1), 7, 1), 13, 64), 64)
          [] pg_cd = 135 ->
               page(SetAt(SetAt(SetAt(hdr(8), 4, 63), 5, 255), 6, 128), 8)
          [] pg_cd = 146 -> page(SetAt(hdr(10), 9, 1), 10)
          [] pg_cd = 177 -> page(SetAt(SetAt(hdr(64), 3, 60), 5, 1), 64)
          [] pg_cd = SG_NVME_VPD_NICR ->
               [ok |-> TRUE,
                din |-> Memcpy(Memcpy(Memcpy(hdr(64 + 4096), 8,
                                   <<83, 71, 51, 95, 85, 84, 73, 76>>, 8),
                            16, <<83, 78, 84, 32, 105, 110, 32, 115,
                                  103, 51, 95, 117, 116, 105, 108, 115>>, 16),
                            32, <<48, 49, 48, 48>>, 4),
                n |-> 64 + 4096, nicr |-> TRUE]
          [] OTHER -> [ok |-> FALSE, din |-> z, n |-> 0, nicr |-> FALSE]

\* if (alloc_len > 0) { n = min(alloc_len, n, mx_di_len); ... }
InqLen(n, alloc_len, mx_di_len) ==
    IF alloc_len > 0
    THEN LET m == IF alloc_len < n THEN alloc_len ELSE n
         IN  IF m < mx_di_len THEN m ELSE mx_di_len
    ELSE n

\* The bytes copied to dip: none when alloc_len is 0 or n is not positive
InqCopy(din, nicr, ctl, n, alloc_len) ==
    IF alloc_len > 0 /\ n > 0
    THEN IF nicr
         THEN [i \in 1..n |-> IF i <= 64 THEN din[i] ELSE IdCtlByte(ctl, i - 65)]
         ELSE Take(din, n)
    ELSE <<>>

sg_snt_resp_inq(ds, cdbp, ctl, ns, mx_di_len, resp0) ==
    LET alloc_len == sg_get_unaligned_be16(cdbp, 3)
        evpd == BitAnd(1, At(cdbp, 1)) # 0
        pg_cd == At(cdbp, 2)
        v == InqVpd(pg_cd, ctl, ns, ds.pdt)
        vn == InqLen(v.n, alloc_len, mx_di_len)
        sn == InqLen(inq_resp_len, alloc_len, mx_di_len)
        fail(r) == [ret |-> -1, resp |-> r, out |-> <<>>, offset |-> -1]
    IN  IF BitAnd(2, At(cdbp, 1)) # 0
        THEN fail(sg_snt_mk_sense_invalid_fld(TRUE, 1, 1))
        ELSE IF evpd
        THEN IF ~v.ok THEN fail(sg_snt_mk_sense_invalid_fld(TRUE, 2, 7))
             ELSE [ret |-> vn, resp |-> resp0,
                   out |-> InqCopy(v.din, v.nicr, ctl, vn, alloc_len),
                   offset |-> v.n]
        ELSE [ret |-> sn, resp |-> resp0,
              out |-> InqCopy(sg_snt_std_inq(ctl, ds.pdt, ds.enc_serv), FALSE,
                              ctl, sn, alloc_len),
              offset |-> inq_resp_len]

(***************************************************************************)
(* REPORT LUNS                                                             *)
(***************************************************************************)
rl_din_sz == 256

\* Byte i of what memcpy(dip, rl_din, n) reads.  rl_din is not cleared: a
\* byte the function has not stored, and any byte past the array, is
\* indeterminate and reads as und.
RlunsByte(i, num, und) ==
    LET lll == num * 8
        k == (i - 8) \div 8
    IN  IF i < 4
        THEN (lll \div (IF i = 0 THEN 16777216 ELSE IF i = 1 THEN 65536
                        ELSE IF i = 2 THEN 256 ELSE 1)) % 256
        ELSE IF i >= 8 /\ i < rl_din_sz /\ k < num /\ (i - 8) % 8 < 2
        THEN IF (i - 8) % 8 = 0 THEN (k \div 256) % 256 ELSE k % 256
        ELSE und

\* The switch on select_report: the number of LUNs, or -1 for the default case
RlunsNum(sel_report, nsid, max_nsid) ==
    CASE sel_report \in {0, 2} -> max_nsid
      [] sel_report \in {1, 16, 18} -> 0
      [] sel_report = 17 -> IF nsid = 1 THEN max_nsid ELSE 0
      [] OTHER -> -1

\* uint16_t alloc_len = sg_get_unaligned_be32(cdbp + 6): the conversion to
\* uint16_t keeps the low 16 bits, which are bytes 8 and 9 of the CDB
RlunsAllocLen(cdbp) == sg_get_unaligned_be16(cdbp, 8)

\* if (alloc_len > 0) { n = min(alloc_len, n, mx_di_len); ... }
RlunsLen(n, alloc_len, mx_di_len) ==
    IF alloc_len > 0
    THEN LET m == IF alloc_len < n THEN alloc_len ELSE n
         IN  IF m < mx_di_len THEN m ELSE mx_di_len
    ELSE n

\* The value returned on the default case of the switch
RlunsRejectReturn == 0

sg_snt_resp_rluns(cdbp, ctl, nsid, mx_di_len, und, resp0) ==
    LET sel_report == At(cdbp, 2)
        alloc_len == RlunsAllocLen(cdbp)
        max_nsid == IdCtlLe32(ctl, 516)
        num == RlunsNum(sel_report, nsid, max_nsid)
        nat == num * 8 + 8
        n == RlunsLen(nat, alloc_len, mx_di_len)
    IN  IF num < 0
        THEN [ret |-> RlunsRejectReturn,
              resp |-> sg_snt_mk_sense_invalid_fld(TRUE, 2, 7),
              out |-> <<>>, offset |-> -1]
        ELSE [ret |-> n, resp |-> resp0,
              out |-> IF alloc_len > 0 /\ n > 0
                      THEN [i \in 1..n |-> RlunsByte(i - 1, num, und)]
                      ELSE <<>>,
              offset |-> nat]

(***************************************************************************)
(* The calls                                                               *)
(***************************************************************************)
Devs == {1, 2}

NoAux == [wrote |-> "none"]

NoCall == [op |-> "none", d |-> 0, cdb |-> <<>>, dop |-> <<>>, mx |-> 0,
           ret |-> 0, resp |-> ZeroResp, out |-> <<>>, offset |-> 0 - 1,
           aux |-> NoAux]

\* The history: for each device state the page it last wrote of each kind
\* (<<>> for none), and for each kind of page the device that last wrote it
NoHist == [caching |-> <<>>, ctrl |-> <<>>, iec |-> <<>>, vs_ua |-> <<>>]

NoWriter == [caching |-> 0, ctrl |-> 0, iec |-> 0, vs_ua |-> 0]

\* A device state as a caller sets it up: cleared, the device type and the
\* write cache setting filled in, then sg_snt_init_dev_stat()
NewDev(pdt, wce) ==
    sg_snt_init_dev_stat([scsi_dsense |-> 0, enclosure_override |-> 0,
                          pdt |-> pdt, enc_serv |-> 0, wce |-> wce,
                          wce_changed |-> FALSE],
                         ctrl_m_pg_init, vs_ua_m_pg_init)

\* The static pages as the library is loaded
InitStatics ==
    /\ caching_m_pg = caching_m_pg_init
    /\ ctrl_m_pg = ctrl_m_pg_init
    /\ iec_m_pg = iec_m_pg_init
    /\ vs_ua_m_pg = vs_ua_m_pg_init
    /\ hist = [by |-> [d \in Devs |-> NoHist], writer |-> NoWriter]

InitPages ==
    /\ InitStatics
    /\ last = NoCall

\* A call that is about to be made: its arguments, and no results yet
Staged(cdb, dop, mx, aux) ==
    [NoCall EXCEPT !.op = "staged", !.cdb = cdb, !.dop = dop, !.mx = mx,
                   !.aux = aux]

InitDevStat(d) ==
    /\ dev' = [dev EXCEPT ![d] = sg_snt_init_dev_stat(dev[d], ctrl_m_pg, vs_ua_m_pg)]
    /\ last' = [NoCall EXCEPT !.op = "init_dev_stat", !.d = d]
    /\ UNCHANGED <<caching_m_pg, ctrl_m_pg, iec_m_pg, vs_ua_m_pg, hist>>

ModeSense10(d, cdb, mx) ==
    \E r \in {sg_snt_resp_mode_sense10(caching_m_pg, ctrl_m_pg, iec_m_pg,
                                      vs_ua_m_pg, dev[d], cdb, mx)} :
        /\ caching_m_pg' = r.pg
        /\ last' = [NoCall EXCEPT !.op = "mode_sense10", !.d = d, !.cdb = cdb,
                                  !.mx = mx, !.ret = r.ret, !.resp = r.resp,
                                  !.out = r.out, !.offset = r.offset]
        /\ UNCHANGED <<ctrl_m_pg, iec_m_pg, vs_ua_m_pg, dev, hist>>

\* The page as it stands in the parameter list, for the history
WrittenPage(r, cdb, dop, und) ==
    LET n == CASE r.wrote = "caching" -> Len(caching_m_pg)
               [] r.wrote = "ctrl" -> Len(ctrl_m_pg)
               [] r.wrote = "iec" -> Len(iec_m_pg)
               [] OTHER -> At(vs_ua_m_pg, 1) + 2
    IN  ArrBytes(dop, r.used, r.off, n, und[2])

ModeSelect10(d, cdb, dop, und) ==
    \E r \in {sg_snt_resp_mode_select10(caching_m_pg, ctrl_m_pg, iec_m_pg,
                                       vs_ua_m_pg, dev[d], cdb, dop, Len(dop), und)} :
        /\ caching_m_pg' = r.cpg
        /\ ctrl_m_pg' = r.ctl
        /\ iec_m_pg' = r.iec
        /\ vs_ua_m_pg' = r.vs
        /\ dev' = [dev EXCEPT ![d] = r.ds]
        /\ hist' = IF r.wrote \in {"caching", "ctrl", "iec", "vs_ua"}
                   THEN [hist EXCEPT !.by[d][r.wrote] = WrittenPage(r, cdb, dop, und),
                                     !.writer[r.wrote] = d]
                   ELSE hist
        /\ last' = [NoCall EXCEPT !.op = "mode_select10", !.d = d, !.cdb = cdb,
                                  !.dop = dop, !.ret = r.ret, !.resp = r.resp,
                                  !.aux = [wrote |-> r.wrote, used |-> r.used,
                                           top |-> r.top, off |-> r.off]]

RepOpcodes(d, cdb, mx, mem_ok) ==
    \E r \in {sg_snt_resp_rep_opcodes(cdb, mx, mem_ok, ZeroResp)} :
        /\ last' = [NoCall EXCEPT !.op = "rep_opcodes", !.d = d, !.cdb = cdb,
                                  !.mx = mx, !.ret = r.ret, !.resp = r.resp,
                                  !.out = r.out, !.offset = r.offset,
                                  !.aux = [mem_ok |-> mem_ok]]
        /\ UNCHANGED <<caching_m_pg, ctrl_m_pg, iec_m_pg, vs_ua_m_pg, dev, hist>>

RepTmfs(d, cdb, mx) ==
    \E r \in {sg_snt_resp_rep_tmfs(cdb, mx, ZeroResp)} :
        /\ last' = [NoCall EXCEPT !.op = "rep_tmfs", !.d = d, !.cdb = cdb,
                                  !.mx = mx, !.ret = r.ret, !.resp = r.resp,
                                  !.out = r.out, !.offset = r.offset]
        /\ UNCHANGED <<caching_m_pg, ctrl_m_pg, iec_m_pg, vs_ua_m_pg, dev, hist>>

Inq(d, cdb, ctl, ns, mx) ==
    \E r \in {sg_snt_resp_inq(dev[d], cdb, ctl, ns, mx, ZeroResp)} :
        /\ last' = [NoCall EXCEPT !.op = "inq", !.d = d, !.cdb = cdb,
                                  !.mx = mx, !.ret = r.ret, !.resp = r.resp,
                                  !.out = r.out, !.offset = r.offset,
                                  !.aux = [ctl |-> ctl, ns |-> ns]]
        /\ UNCHANGED <<caching_m_pg, ctrl_m_pg, iec_m_pg, vs_ua_m_pg, dev, hist>>

Rluns(d, cdb, ctl, nsid, mx, und) ==
    \E r \in {sg_snt_resp_rluns(cdb, ctl, nsid, mx, und, ZeroResp)} :
        /\ last' = [NoCall EXCEPT !.op = "rluns", !.d = d, !.cdb = cdb,
                                  !.mx = mx, !.ret = r.ret, !.resp = r.resp,
                                  !.out = r.out, !.offset = r.offset,
                                  !.aux = [max_nsid |-> ctl.nn, nsid |-> nsid]]
        /\ UNCHANGED <<caching_m_pg, ctrl_m_pg, iec_m_pg, vs_ua_m_pg, dev, hist>>

\* The caller's buffer holds max_di_len bytes; DipGuard more are modelled
MakeVpdDevid(ctl, ns, pdt, tproto, max_di_len) ==
    \E r \in {sg_make_vpd_devid_for_nvme(ctl, ns, pdt, tproto,
                                        Fill(max_di_len + DipGuard, Untouched),
                                        max_di_len)} :
        /\ last' = [NoCall EXCEPT !.op = "devid", !.mx = max_di_len,
                                  !.ret = r.ret, !.out = r.dip,
                                  !.aux = [ctl |-> ctl, ns |-> ns, pdt |-> pdt,
                                           tproto |-> tproto, stop |-> r.stop,
                                           n |-> r.n]]
        /\ UNCHANGED <<caching_m_pg, ctrl_m_pg, iec_m_pg, vs_ua_m_pg, dev, hist>>

(***************************************************************************)
(* The inputs the calls are made with                                      *)
(***************************************************************************)
MkSenseCdb(dbd, llbaa, pcontrol, pcode, subpcode, alloc_len) ==
    <<90, (IF llbaa THEN 16 ELSE 0) + (IF dbd THEN 8 ELSE 0),
      pcontrol * 64 + pcode, subpcode, 0, 0, 0,
      alloc_len \div 256, alloc_len % 256, 0>>

MkSelectCdb(pf, sp, param_len) ==
    <<85, pf * 16 + sp, 0, 0, 0, 0, 0, param_len \div 256, param_len % 256, 0>>

\* A parameter list: the 8 byte header (mode data length mdl, block
\* descriptor length bdl), nbd bytes of block descriptors, then the page
MkDop(mdl, bdl, nbd, page) ==
    <<mdl \div 256, mdl % 256, 0, 0, 0, 0, bdl \div 256, bdl % 256>>
    \o Zeros(nbd) \o page

\* A 12 byte CDB with a 4 byte allocation length in bytes 6 to 9
MkCdb12(opcode, b1, b2, b3, b45, alloc_len) ==
    sg_put_unaligned_be32(
        <<opcode, b1, b2, b3, b45 \div 256, b45 % 256, 0, 0, 0, 0, 0, 0>>,
        6, alloc_len)

MkInqCdb(b1, pg_cd, alloc_len) ==
    <<18, b1, pg_cd, alloc_len \div 256, alloc_len % 256, 0>>

CachingPages ==
    {<<8, 18, 20, 0, 255, 255, 0, 0,  255, 255, 255, 255, 128, 20, 0, 0,  0, 0, 0, 0>>,
     <<8, 18, 16, 1, 255, 255, 0, 0,  255, 255, 255, 255, 128, 20, 0, 0,  0, 0, 0, 7>>}

CtrlPages ==
    {<<10, 10, 6, 0, 0, 0, 0, 0,  0, 0, 2, 75>>,
     <<10, 10, 2, 0, 0, 0, 0, 0,  0, 0, 2, 75>>}

IecPages == {<<28, 10, 12, 3, 0, 0, 0, 0, 0, 0, 0, 1>>}

VsUaPages ==
    {<<0, 14, 1, 0, 0, 0, 0, 0,  0, 0, 0, 0, 0, 0, 0, 0>>,
     <<0, 14, 0, 0, 0, 0, 0, 0,  0, 0, 0, 0, 0, 0, 0, 9>>}

\* Pages sg_snt_resp_mode_select10 has no matching stored page for: a wrong
\* page length, a sub-page, a page that is not writable, an unknown page
MismatchedPages ==
    {<<8, 17, 20, 0, 255, 255, 0, 0,  255, 255, 255, 255, 128, 20, 0, 0,  0, 0, 0>>,
     <<10, 9, 6, 0, 0, 0, 0, 0,  0, 0, 2>>,
     <<28, 11, 12, 3, 0, 0, 0, 0, 0, 0, 0, 1, 0>>,
     <<74, 1, 0, 28,  0, 0, 64, 0,  0, 0, 0, 0,  0, 0, 0, 0,
       0, 0, 0, 0,  0, 0, 0, 0,  0, 0, 0, 0,  0, 0, 0, 0>>,
     <<2, 14, 128, 128, 0, 10, 0, 0,  0, 0, 0, 0, 0, 0, 0, 0>>,
     <<25, 2, 0, 0>>}

\* The vendor Unit Attention page with a wrong page length, and as a sub-page
VsUaMismatchedPages ==
    {<<0, 13, 1, 0, 0, 0, 0, 0,  0, 0, 0, 0, 0, 0, 0>>,
     <<64, 14, 0, 12, 1, 0, 0, 0,  0, 0, 0, 0, 0, 0, 0, 0>>,
     <<64, 3, 0, 12, 1, 0, 0, 0,  0, 0, 0, 0, 0, 0, 0, 0>>}

\* Malformed lists: the PS bit set, a page longer than the list, a non-zero
\* mode data length, a block descriptor length that points past the array
MalformedDops ==
    {MkDop(0, 0, 0, <<136, 18, 20, 0>>),
     MkDop(0, 0, 0, <<8, 200, 20, 0>>),
     MkDop(4, 0, 0, <<10, 10, 6, 0, 0, 0, 0, 0,  0, 0, 2, 75>>),
     MkDop(0, 600, 0, <<>>)}

GoodDops ==
    {MkDop(0, 0, 0, p) : p \in CachingPages \cup CtrlPages \cup IecPages
                                \cup VsUaPages}
    \cup {MkDop(0, 8, 8, <<10, 10, 6, 0, 0, 0, 0, 0,  0, 0, 2, 75>>)}

BadPageDops ==
    {MkDop(0, 0, 0, p) : p \in MismatchedPages \cup VsUaMismatchedPages}

SelectDops == GoodDops \cup BadPageDops \cup MalformedDops

\* The bytes an out of bounds read of the local array may yield
Unds == {<<0, 0>>, <<136, 18>>}

GoodSelectCdb == MkSelectCdb(1, 0, 64)

SelectCdbs ==
    {MkSelectCdb(pf, sp, pl) : pf \in {0, 1}, sp \in {0, 1}, pl \in {64, 512, 513}}

\* The parameter list the CDB variations are tried with
ProbeDop == MkDop(0, 0, 0, <<10, 10, 6, 0, 0, 0, 0, 0,  0, 0, 2, 75>>)

(***************************************************************************)
(* Specification Spec: two device states that share the library, each      *)
(* written with MODE SELECT(10) and read with MODE SENSE(10)               *)
(***************************************************************************)
SenseCdbs ==
    {MkSenseCdb(FALSE, FALSE, 0, pcode, 0, 65535) : pcode \in {8, 10}}

SharedDops == {MkDop(0, 0, 0, p) : p \in CachingPages \cup CtrlPages}

Init ==
    /\ InitPages
    /\ dev \in [Devs -> {NewDev(0, FALSE), NewDev(0, TRUE)}]

Next ==
    \E d \in Devs :
        \/ InitDevStat(d)
        \/ \E cdb \in SenseCdbs : ModeSense10(d, cdb, SG_PT_C_MAX_MSENSE_SZ)
        \/ \E dop \in SharedDops : ModeSelect10(d, GoodSelectCdb, dop, <<0, 0>>)

Spec == Init /\ [][Next]_vars

(***************************************************************************)
(* Specification SpecSelect: one device state, MODE SELECT(10) with every  *)
(* kind of CDB and parameter list, and MODE SENSE(10) of what was written  *)
(***************************************************************************)
SelectSenseCdbs ==
    {MkSenseCdb(FALSE, FALSE, pc, pcode, 0, 65535) :
        pc \in {0, 2}, pcode \in {8, 10, 63}}

InitSelect ==
    /\ InitPages
    /\ dev \in {[d \in Devs |-> ds] : ds \in {NewDev(0, FALSE), NewDev(13, FALSE)}}

NextSelect ==
    \/ InitDevStat(1)
    \/ \E cdb \in SelectSenseCdbs : ModeSense10(1, cdb, SG_PT_C_MAX_MSENSE_SZ)
    \/ \E cdb \in SelectCdbs, dop \in SelectDops, und \in Unds :
          /\ cdb = GoodSelectCdb \/ dop = ProbeDop
          /\ ModeSelect10(1, cdb, dop, und)

SpecSelect == InitSelect /\ [][NextSelect]_vars

(***************************************************************************)
(* Specification SpecBuilders: one call of one response builder, the       *)
(* arguments drawn from every combination of the field values below        *)
(***************************************************************************)
MxLens == {0, 60, 256}

\* The longest response buffer a caller passes
MaxMxLen == 512

BuilderSenseCdbs ==
    {MkSenseCdb(dbd, llbaa, pc, pcode, subpcode, alloc_len) :
        dbd \in BOOLEAN, llbaa \in BOOLEAN, pc \in 0..3,
        pcode \in {0, 2, 8, 10, 25, 28, 63}, subpcode \in {0, 1, 2, 255},
        alloc_len \in {0, 9, 100, 65535}}

RepOpcodesCdbs ==
    {MkCdb12(163, 12, rctd * 128 + reporting_opts, req_opcode, req_sa, alloc_len) :
        rctd \in {0, 1}, reporting_opts \in 0..4,
        req_opcode \in {18, 85, 163, 255}, req_sa \in {0, 12, 13},
        alloc_len \in {0, 3, 4, 20, 65535, 65536}}

RepTmfsCdbs ==
    {MkCdb12(163, 13, repd * 128, 0, 0, alloc_len) :
        repd \in {0, 1}, alloc_len \in {0, 3, 4, 10, 16, 100, 65536}}
    \cup {<<163, 13, 0, 0, 0, 0, 128, 0, 0, 16, 0, 0>>}

InqCdbs ==
    {MkInqCdb(b1, pg_cd, alloc_len) :
        b1 \in {0, 1, 2, 3}, pg_cd \in {0, 85, 128, 131, 134, 135, 146, 177, 222},
        alloc_len \in {0, 4, 36, 74, 255, 65535}}

RlunsCdbs ==
    {MkCdb12(160, 0, sel_report, 0, 0, alloc_len) :
        sel_report \in {0, 1, 2, 3, 16, 17, 18},
        alloc_len \in {0, 8, 15, 16, 24, 4096, 65536, 65544}}

\* Model number and serial number fields with k characters, blank padded
MnOf(k) ==
    [i \in 1..40 |-> IF i > k THEN 32 ELSE IF i % 4 = 2 /\ i < k THEN 32 ELSE 77]

SnOf(k) == [i \in 1..20 |-> IF i > k THEN 32 ELSE 83]

MkCtl(mn, sn, nn) ==
    [mn |-> mn, sn |-> sn, fr |-> <<49, 46, 48, 32, 32, 32, 32, 32>>,
     cmic |-> 0, nn |-> nn]

NoNs == [present |-> FALSE, nguid |-> Zeros(16), eui64 |-> Zeros(8)]

MkNs(nguid, eui64) == [present |-> TRUE, nguid |-> nguid, eui64 |-> eui64]

AnNguid == <<1, 35, 69, 103, 137, 171, 205, 239,  16, 50, 84, 118, 152, 186, 220, 254>>

AnEui64 == <<0, 37, 56, 171, 205, 239, 1, 2>>

BuilderDevs ==
    {NewDev(0, FALSE), NewDev(0, TRUE), NewDev(PDT_SES, FALSE),
     NewDev(PDT_UNKNOWN, FALSE)}

InitBuilders ==
    /\ InitStatics
    /\ \E ds \in BuilderDevs : dev = [d \in Devs |-> ds]
    /\ \/ \E cdb \in BuilderSenseCdbs \cup RepTmfsCdbs, mx \in MxLens :
             last = Staged(cdb, <<>>, mx, NoAux)
       \/ \E cdb \in SelectCdbs, und \in Unds,
             dop \in BadPageDops \cup MalformedDops \cup {ProbeDop} :
             last = Staged(cdb, dop, 0, [und |-> und])
       \/ \E cdb \in RepOpcodesCdbs, mx \in MxLens, m \in BOOLEAN :
             last = Staged(cdb, <<>>, mx, [mem_ok |-> m])
       \/ \E cdb \in InqCdbs, mx \in MxLens \cup {4096 + 64}, k \in {5, 38},
             ns \in {NoNs, MkNs(AnNguid, AnEui64)} :
             last = Staged(cdb, <<>>, mx,
                           [ctl |-> MkCtl(MnOf(k), SnOf(20), 1), ns |-> ns])
       \/ \E cdb \in RlunsCdbs, mx \in MxLens \cup {MaxMxLen},
             nn \in {0, 1, 2, 31, 40}, nsid \in {1, 2}, und \in {0, 165} :
             last = Staged(cdb, <<>>, mx,
                           [ctl |-> MkCtl(MnOf(5), SnOf(20), nn),
                            nsid |-> nsid, und |-> und])

\* The opcode and the service action of the staged CDB select the builder
NextBuilders ==
    /\ last.op = "staged"
    /\ \/ last.cdb[1] = 90 /\ ModeSense10(1, last.cdb, last.mx)
       \/ last.cdb[1] = 85 /\ ModeSelect10(1, last.cdb, last.dop, last.aux.und)
       \/ /\ last.cdb[1] = 163 /\ last.cdb[2] = 12
          /\ RepOpcodes(1, last.cdb, last.mx, last.aux.mem_ok)
       \/ /\ last.cdb[1] = 163 /\ last.cdb[2] = 13
          /\ RepTmfs(1, last.cdb, last.mx)
       \/ last.cdb[1] = 18 /\ Inq(1, last.cdb, last.aux.ctl, last.aux.ns, last.mx)
       \/ /\ last.cdb[1] = 160
          /\ Rluns(1, last.cdb, last.aux.ctl, last.aux.nsid, last.mx, last.aux.und)

SpecBuilders == InitBuilders /\ [][NextBuilders]_vars

(***************************************************************************)
(* Specification SpecDevid: one call of sg_make_vpd_devid_for_nvme         *)
(***************************************************************************)
\* The buffer lengths tried: from below the 56 byte minimum to past the
\* longest page (76 bytes and two NGUID designators of 20 and 40 bytes)
MinDiLen == 50

MaxDiLen == 140

MnLens == {0, 5, 21, 37, 38, 39, 40}

SnLens == {0, 7, 18, 19, 20}

NsChoices ==
    {NoNs, MkNs(Zeros(16), Zeros(8)), MkNs(AnNguid, Zeros(8)),
     MkNs(Zeros(16), AnEui64), MkNs(AnNguid, AnEui64)}

InitDevid ==
    /\ InitStatics
    /\ dev = [d \in Devs |-> NewDev(0, FALSE)]
    /\ \E mk \in MnLens, sk \in SnLens, ns \in NsChoices,
          pt \in {<<0, 0 - 1>>, <<PDT_SES, 6>>}, max_di_len \in MinDiLen..MaxDiLen :
          last = Staged(<<>>, <<>>, max_di_len,
                        [ctl |-> MkCtl(MnOf(mk), SnOf(sk), 1), ns |-> ns,
                         pdt |-> pt[1], tproto |-> pt[2]])

NextDevid ==
    /\ last.op = "staged"
    /\ MakeVpdDevid(last.aux.ctl, last.aux.ns, last.aux.pdt, last.aux.tproto,
                    last.mx)

SpecDevid == InitDevid /\ [][NextDevid]_vars

(***************************************************************************)
(* Specification SpecOpcodes: one REPORT SUPPORTED OPERATION CODES call    *)
(* for each row of the table and for pairs that no row holds               *)
(***************************************************************************)
\* The rows of the table before the sentinel
OpcodeRows == 1..(Len(sg_opcode_info_arr) - 1)

\* Opcode and service action pairs that no row of the table holds
AbsentPairs == {<<18, 1>>, <<163, 0>>, <<163, 14>>, <<158, 0>>, <<255, 0>>,
                <<255, 65535>>}

RequestedPairs ==
    {<<sg_opcode_info_arr[i].opcode, sg_opcode_info_arr[i].sa>> : i \in OpcodeRows}
    \cup AbsentPairs

InitOpcodes ==
    /\ InitStatics
    /\ dev = [d \in Devs |-> NewDev(0, FALSE)]
    /\ \E pr \in RequestedPairs, rctd \in {0, 1}, reporting_opts \in 0..3,
          alloc_len \in {4, 12, 65535}, mx \in {10, 256}, m \in BOOLEAN :
          last = Staged(MkCdb12(163, 12, rctd * 128 + reporting_opts, pr[1],
                                pr[2], alloc_len),
                        <<>>, mx, [mem_ok |-> m])

NextOpcodes ==
    /\ last.op = "staged"
    /\ RepOpcodes(1, last.cdb, last.mx, last.aux.mem_ok)

SpecOpcodes == InitOpcodes /\ [][NextOpcodes]_vars

(***************************************************************************)
(* sg_inq: the designation descriptors of the Device Identification page   *)
(***************************************************************************)
Max(a, b) == IF a > b THEN a ELSE b

\* isprint() and isblank() of the C locale
isprint(c) == c >= 32 /\ c <= 126

isblank(c) == c = 32 \/ c = 9

\* printf("%.*s", n, s + from): at most n bytes, up to the first NUL
RECURSIVE StrN(_, _, _)
StrN(s, from, n) ==
    IF n <= 0 \/ from >= Len(s) \/ At(s, from) = 0 THEN <<>>
    ELSE <<At(s, from)>> \o StrN(s, from + 1, n - 1)

\* The n bytes of s from index from on
BytesAt(s, from, n) == SubSeq(s, from + 1, from + n)

sg_get_unaligned_be24(s, i) == (At(s, i) * 256 + At(s, i + 1)) * 256 + At(s, i + 2)

\* An iterator that steps to every designator whose header lies inside the
\* region, whether or not its identifier does
sg_vpd_dev_id_iter_header_only(buff, len, off) ==
    LET k == IF off < 0 THEN 0 ELSE off + At(buff, off + 3) + 4
        seen == IF off < 0 THEN -1 ELSE off + 3
    IN  IF k = len THEN [u |-> -1, off |-> off, top |-> seen]
        ELSE IF k + 4 > len THEN [u |-> -2, off |-> off, top |-> seen]
        ELSE [u |-> 0, off |-> k, top |-> Max(seen, k + 3)]

\* sg_vpd_dev_id_iter(buff, len, &off, -1, -1, -1): the step to the designator
\* after the one at off (off < 0: to the first one) in a region of len bytes.
\* u is 0 with off at a designator that lies whole inside the region, -1 at
\* the end of the region and -2 when the region ends inside a designator; in
\* the last two cases off stays.  top is the highest index read
sg_vpd_dev_id_iter(buff, len, off) ==
    LET k == IF off < 0 THEN 0 ELSE off + At(buff, off + 3) + 4
        seen == IF off < 0 THEN -1 ELSE off + 3
    IN  IF k = len THEN [u |-> -1, off |-> off, top |-> seen]
        ELSE IF k + 4 > len THEN [u |-> -2, off |-> off, top |-> seen]
        ELSE IF k + 4 + At(buff, k + 3) > len
        THEN [u |-> -2, off |-> off, top |-> Max(seen, k + 3)]
        ELSE [u |-> 0, off |-> k, top |-> Max(seen, k + 3)]

\* for (k = 0; (k < i_len) && isprint(ip[k]); ++k)
RECURSIVE PrintableRun(_, _, _, _)
PrintableRun(buff, ipo, i_len, k) ==
    IF k < i_len /\ isprint(At(buff, ipo + k))
    THEN PrintableRun(buff, ipo, i_len, k + 1)
    ELSE k

DesigValue(v) == [res |-> "value", val |-> v]

DesigError == [res |-> "error", val |-> <<>>]

\* The NAA 5 and NAA 6 fields: the 24 bit AOI, then the 36 bit vendor
\* specific identifier as its nibble and four bytes
NaaRegistered(buff, ipo) ==
    <<(BitAnd(At(buff, ipo), 15) * 256 + At(buff, ipo + 1)) * 4096
       + At(buff, ipo + 2) * 16 + At(buff, ipo + 3) \div 16,
      BitAnd(At(buff, ipo + 3), 15)>> \o BytesAt(buff, ipo + 4, 4)

\* The NAA decoding without the test of the code set
DecodeNaaAnyCodeSet(buff, ipo, i_len, c_set) ==
    LET naa == At(buff, ipo) \div 16
    IN  IF FALSE THEN DesigError
        ELSE CASE naa = 2 ->
                    IF i_len # 8 THEN DesigError
                    ELSE DesigValue(<<2, BitAnd(At(buff, ipo), 15) * 256 + At(buff, ipo + 1),
                                      sg_get_unaligned_be24(buff, ipo + 2),
                                      sg_get_unaligned_be24(buff, ipo + 5)>>)
               [] naa = 3 ->
                    IF i_len # 8 THEN DesigError
                    ELSE DesigValue(<<3>> \o BytesAt(buff, ipo, 8))
               [] naa = 5 ->
                    IF i_len # 8 THEN DesigError
                    ELSE DesigValue(<<5>> \o NaaRegistered(buff, ipo))
               [] naa = 6 ->
                    IF i_len # 16 THEN DesigError
                    ELSE DesigValue(<<6>> \o NaaRegistered(buff, ipo)
                                    \o BytesAt(buff, ipo + 8, 8))
               [] OTHER -> DesigError

\* case 3 of the switch in decode_dev_ids
DecodeNaa(buff, ipo, i_len, c_set) ==
    LET naa == At(buff, ipo) \div 16
    IN  IF c_set # 1 THEN DesigError
        ELSE CASE naa = 2 ->
                    IF i_len # 8 THEN DesigError
                    ELSE DesigValue(<<2, BitAnd(At(buff, ipo), 15) * 256 + At(buff, ipo + 1),
                                      sg_get_unaligned_be24(buff, ipo + 2),
                                      sg_get_unaligned_be24(buff, ipo + 5)>>)
               [] naa = 3 ->
                    IF i_len # 8 THEN DesigError
                    ELSE DesigValue(<<3>> \o BytesAt(buff, ipo, 8))
               [] naa = 5 ->
                    IF i_len # 8 THEN DesigError
                    ELSE DesigValue(<<5>> \o NaaRegistered(buff, ipo))
               [] naa = 6 ->
                    IF i_len # 16 THEN DesigError
                    ELSE DesigValue(<<6>> \o NaaRegistered(buff, ipo)
                                    \o BytesAt(buff, ipo + 8, 8))
               [] OTHER -> DesigError

\* The switch on desig_type in decode_dev_ids: what is written for the
\* designator whose identifier of i_len bytes starts at index ipo.  "value" is
\* a decoded value on the standard output, "error" a message and a hex dump
\* on the error output only
DecodeDesig(buff, ipo, i_len, p_id, c_set, piv, assoc, desig_type) ==
    CASE desig_type = 0 ->
            LET run == IF c_set \in {2, 3} THEN PrintableRun(buff, ipo, i_len, 0) ELSE 0
                k == IF c_set \in {2, 3} /\ run >= i_len THEN 1 ELSE run
            IN  IF k # 0 THEN DesigValue(StrN(buff, ipo, i_len))
                ELSE DesigValue(BytesAt(buff, ipo, i_len))
      [] desig_type = 1 ->
            DesigValue(StrN(buff, ipo, 8)
                       \o (IF i_len <= 8 THEN <<>>
                           ELSE IF c_set \in {2, 3} THEN StrN(buff, ipo + 8, i_len - 8)
                           ELSE BytesAt(buff, ipo + 8, i_len - 8)))
      [] desig_type = 2 ->
            IF c_set # 1 THEN DesigError
            ELSE IF i_len \notin {8, 12, 16} THEN DesigError
            ELSE DesigValue(BytesAt(buff, ipo, i_len))
      [] desig_type = 3 -> DecodeNaa(buff, ipo, i_len, c_set)
      [] desig_type \in {4, 5} ->
            IF c_set # 1 \/ assoc # 1 \/ i_len # 4 THEN DesigError
            ELSE DesigValue(<<sg_get_unaligned_be16(buff, ipo + 2)>>)
      [] desig_type = 6 ->
            IF c_set # 1 \/ assoc # 0 \/ i_len # 4 THEN DesigError
            ELSE DesigValue(<<sg_get_unaligned_be16(buff, ipo + 2)>>)
      [] desig_type = 7 ->
            IF c_set # 1 \/ assoc # 0 THEN DesigError
            ELSE DesigValue(BytesAt(buff, ipo, i_len))
      [] desig_type = 8 ->
            IF c_set # 3 /\ c_set # 2 THEN DesigError
            ELSE DesigValue(StrN(buff, ipo, i_len))
      [] desig_type = 9 ->
            IF p_id = 9 THEN DesigValue(<<BitAnd(127, At(buff, ipo)), At(buff, ipo + 2)>>)
            ELSE IF p_id = 10 THEN DesigValue(<<At(buff, ipo), At(buff, ipo + 1)>>)
            ELSE [res |-> "note", val |-> <<>>]
      [] desig_type = 10 ->
            IF c_set # 1 THEN DesigError
            ELSE IF At(buff, ipo) \div 16 # 1 \/ i_len # 18 THEN DesigError
            ELSE DesigValue(BytesAt(buff, ipo + 2, 16))
      [] OTHER -> DesigError

\* One pass of the loop body of decode_dev_ids from the label decode on
DecodeStep(buff, bpo, ipo, i_len, p_id, c_set, piv, assoc, desig_type, do_hex) ==
    [off |-> bpo, desig_type |-> desig_type, c_set |-> c_set, assoc |-> assoc,
     i_len |-> i_len, ipo |-> ipo]
    @@ (IF do_hex THEN [res |-> "hex", val |-> BytesAt(buff, ipo, i_len)]
        ELSE DecodeDesig(buff, ipo, i_len, p_id, c_set, piv, assoc, desig_type))

\* The for loop of decode_dev_ids, entered at its condition with the cursor
\* at off: ev are the designators handled so far, top the highest index the
\* walk has read.  The answer adds the iterator's last result u, the cursor,
\* and whether the walk left through the length check of the loop body
RECURSIVE DevIdsLoop(_, _, _, _, _, _)
DevIdsLoop(buff, len, off, do_hex, ev, top) ==
    LET it == sg_vpd_dev_id_iter(buff, len, off)
        bpo == it.off
        i_len == At(buff, bpo + 3)
    IN  IF it.u # 0
        THEN [ev |-> ev, top |-> Max(top, it.top), u |-> it.u, off |-> it.off,
              longer |-> FALSE, around |-> (it.u = -2)]
        ELSE IF bpo + i_len + 4 > len
        THEN [ev |-> ev, top |-> Max(top, it.top), u |-> it.u, off |-> it.off,
              longer |-> TRUE, around |-> FALSE]
        ELSE DevIdsLoop(buff, len, bpo, do_hex,
                        Append(ev, DecodeStep(buff, bpo, bpo + 4, i_len,
                                              At(buff, bpo) \div 16,
                                              At(buff, bpo) % 16,
                                              At(buff, bpo + 1) \div 128,
                                              (At(buff, bpo + 1) \div 16) % 4,
                                              At(buff, bpo + 1) % 16, do_hex)),
                        Max(top, it.top))

\* decode_dev_ids(leadin, buff, len, op, jap) without JSON output.  pre_spc
\* tells that the third byte of the region made it take the region for a
\* pre-SPC descriptor
decode_dev_ids(buff, len, do_hex) ==
    IF At(buff, 2) > 2
    THEN DevIdsLoop(buff, len, 16, do_hex,
                    <<DecodeStep(buff, 0, 0, len, 15, 1, 0, 0, 3, do_hex)>>, -1)
         @@ [pre_spc |-> TRUE]
    ELSE DevIdsLoop(buff, len, -1, do_hex, <<>>, -1) @@ [pre_spc |-> FALSE]

\* Bytes of the response buffer past the region handed to the decoder
GuardLen == 20

DecodeDevIds(buff, len, do_hex) ==
    \E r \in {decode_dev_ids(buff, len, do_hex)} :
        /\ last' = [last EXCEPT !.op = "decode_dev_ids", !.ret = r.u,
                                !.out = r.ev, !.offset = r.off,
                                !.resp = [top |-> r.top, longer |-> r.longer,
                                          around |-> r.around,
                                          pre_spc |-> r.pre_spc]]
        /\ UNCHANGED <<caching_m_pg, ctrl_m_pg, iec_m_pg, vs_ua_m_pg, dev, hist>>

(***************************************************************************)
(* Specification SpecDevIds: one call of decode_dev_ids on a region of     *)
(* designators, whole or cut short                                         *)
(***************************************************************************)
Desig(p_id, c_set, piv, assoc, desig_type, rsv, ident) ==
    <<p_id * 16 + c_set, piv * 128 + assoc * 16 + desig_type, rsv, Len(ident)>>
    \o ident

\* An identifier of n bytes that starts with first
Ident(first, n) == [i \in 1..n |-> IF i = 1 THEN first ELSE (29 * i + 7) % 256]

\* First bytes: NAA 2, 3, 5 and 6, a locally assigned UUID (also NAA 1), NUL
IdentFirsts == {33, 53, 81, 97, 16, 0}

IdentLens == {0, 4, 8, 12, 16, 18}

\* A relative target port designator and an NAA 5 designator as neighbours
ARelPort == Desig(0, 1, 0, 1, 4, 0, <<0, 0, 0, 2>>)

ANaa5 == Desig(0, 1, 0, 0, 3, 0, <<80, 1, 35, 69, 103, 137, 171, 205>>)

Befores == {<<>>, <<ARelPort>>, <<ARelPort, ANaa5>>}

Afters == {<<>>, <<ANaa5>>}

RECURSIVE Flatten(_)
Flatten(ds) == IF ds = <<>> THEN <<>> ELSE Head(ds) \o Flatten(Tail(ds))

\* The offsets at which the designators of ds end
RECURSIVE Ends(_, _)
Ends(ds, from) ==
    IF ds = <<>> THEN <<>>
    ELSE <<from + Len(Head(ds))>> \o Ends(Tail(ds), from + Len(Head(ds)))

\* The region of the designators ds without its last cut bytes, in a buffer
\* whose further bytes hold stale
StagedRegion(ds, cut, stale, do_hex) ==
    Staged(<<>>, Flatten(ds) \o Fill(GuardLen, stale),
           Max(0, Len(Flatten(ds)) - cut),
           [ds |-> ds, ends |-> Ends(ds, 0), do_hex |-> do_hex])

InitDevIds ==
    /\ InitStatics
    /\ dev = [d \in Devs |-> NewDev(0, FALSE)]
    /\ \/ \E desig_type \in 0..11, c_set \in {1, 2, 3}, assoc \in {0, 1},
             first \in IdentFirsts, n \in IdentLens, bf \in Befores,
             af \in Afters, cut \in {0, 1, 5}, do_hex \in BOOLEAN :
             last = StagedRegion(bf \o <<Desig(0, c_set, 0, assoc, desig_type, 0,
                                               Ident(first, n))>> \o af,
                                 cut, 255, do_hex)
       \/ \E p_id \in {9, 10, 6}, piv \in {0, 1}, assoc \in {0, 1},
             n \in IdentLens, af \in Afters, cut \in {0, 2, 3, 4, 9},
             stale \in {0, 255} :
             last = StagedRegion(<<Desig(p_id, 1, piv, assoc, 9, 0, Ident(5, n))>>
                                 \o af, cut, stale, FALSE)
       \/ \E rsv \in {1, 3, 96}, first \in IdentFirsts, n \in IdentLens,
             af \in Afters \cup {<<ANaa5, ANaa5>>}, cut \in {0, 1},
             stale \in {0, 255},
             do_hex \in BOOLEAN :
             last = StagedRegion(<<Desig(0, 1, 0, 0, 3, rsv, Ident(first, n))>>
                                 \o af, cut, stale, do_hex)

NextDevIds ==
    /\ last.op = "staged"
    /\ DecodeDevIds(last.dop, last.mx, last.aux.do_hex)

SpecDevIds == InitDevIds /\ [][NextDevIds]_vars

(***************************************************************************)
(* sg_inq: the export of identifiers as KEY=value lines                    *)
(***************************************************************************)
DEF_ALLOC_LEN == 252

\* encode_whitespaces: for (j = ...; (j < inlen) && isblank(str[j]); ++j)
RECURSIVE SkipBlanks(_, _, _, _)
SkipBlanks(str, base, inlen, j) ==
    IF j < inlen /\ isblank(At(str, base + j)) THEN SkipBlanks(str, base, inlen, j + 1)
    ELSE j

\* encode_whitespaces: for ( ; (j < inlen) && (str[j] < 0x20); ++j)
RECURSIVE SkipPrefix(_, _, _, _)
SkipPrefix(str, base, inlen, j) ==
    IF j < inlen /\ At(str, base + j) < 32 THEN SkipPrefix(str, base, inlen, j + 1)
    ELSE j

\* encode_whitespaces: the loop that strips trailing blanks and NULs
RECURSIVE StripTrailing(_, _, _, _)
StripTrailing(str, base, k, outlen) ==
    IF outlen > k /\ (isblank(At(str, base + outlen - 1)) \/ At(str, base + outlen - 1) = 0)
    THEN StripTrailing(SetAt(str, base + outlen - 1, 0), base, k, outlen - 1)
    ELSE [str |-> str, outlen |-> outlen]

\* encode_whitespaces: for (res = 0; k < outlen; ++k)
RECURSIVE EncodeLoop(_, _, _, _, _, _, _)
EncodeLoop(str, base, k, outlen, res, valid, zeroes) ==
    IF k >= outlen THEN [str |-> str, res |-> res, valid |-> valid]
    ELSE LET c == At(str, base + k)
         IN  IF isblank(c)
             THEN IF res > 0 /\ At(str, base + res - 1) # 95
                  THEN EncodeLoop(SetAt(str, base + res, 95), base, k + 1, outlen,
                                  res + 1, TRUE, 0)
                  ELSE EncodeLoop(str, base, k + 1, outlen, res, valid, 0)
             ELSE IF ~isprint(c)
             THEN IF c = 0
                  THEN IF zeroes # 0 THEN [str |-> str, res |-> res, valid |-> valid]
                       ELSE EncodeLoop(str, base, k + 1, outlen, res, valid, zeroes + 1)
                  ELSE EncodeLoop(SetAt(str, base + res, 46), base, k + 1, outlen,
                                  res + 1, valid, 0)
             ELSE EncodeLoop(SetAt(str, base + res, c), base, k + 1, outlen,
                             res + 1, TRUE, 0)

\* encode_whitespaces(str + base, inlen): the bytes as it leaves them and the
\* length it returns
encode_whitespaces(str, base, inlen) ==
    LET j == SkipBlanks(str, base, inlen, 0)
        k == IF j < inlen THEN SkipPrefix(str, base, inlen, j) ELSE j
        st == StripTrailing(str, base, k, inlen)
        lp == EncodeLoop(st.str, base, k, st.outlen, 0, FALSE, 0)
        res == IF lp.valid THEN lp.res ELSE 0
    IN  [str |-> IF res < inlen THEN SetAt(lp.str, base + res, 0) ELSE lp.str,
         res |-> res]

\* printf("%x") of one nibble: the characters "0123456789abcdef"
HexDigitLower(n) == IF n < 10 THEN 48 + n ELSE 87 + n

\* The udev-conforming character encoding: printf("%c") of a byte that the
\* test lets through, printf("\\x%02x") of every other byte
UdevChar(c) ==
    IF \/ c >= 48 /\ c <= 57
       \/ c >= 65 /\ c <= 90
       \/ c >= 97 /\ c <= 122
       \/ c \in {35, 43, 45, 46, 58, 61, 64, 95, 0}
    THEN <<c>>
    ELSE <<92, 120, HexDigitLower(c \div 16), HexDigitLower(c % 16)>>

\* for (m = 0; m < k; ++m) over the k bytes from index base on
RECURSIVE UdevEncode(_, _, _)
UdevEncode(str, base, k) ==
    IF k <= 0 THEN <<>>
    ELSE UdevChar(At(str, base)) \o UdevEncode(str, base + 1, k - 1)

\* printf("%s"): the bytes up to the first NUL
RECURSIVE StrZ(_, _)
StrZ(s, from) ==
    IF from >= Len(s) \/ At(s, from) = 0 THEN <<>>
    ELSE <<At(s, from)>> \o StrZ(s, from + 1)

\* printf("%.*s", n, ...): a negative precision counts as none
StrPrec(s, from, n) == IF n < 0 THEN StrZ(s, from) ELSE StrN(s, from, n)

\* One line of the export: what stands after KEY= is text (the characters
\* written), hex (the bytes written as hex digits) or num (the number written)
ExportLine(key, assoc, kind, val) ==
    [key |-> key, assoc |-> assoc, kind |-> kind, val |-> val]

\* The switch on desig_type in export_dev_ids: the lines written for one
\* designator and the buffer as it is left
ExportDesig(buff, ipo, i_len, p_id, c_set, assoc, desig_type) ==
    LET none == [lines |-> <<>>, buff |-> buff]
        hex(key) == [lines |-> <<ExportLine(key, assoc, "hex", BytesAt(buff, ipo, i_len))>>,
                     buff |-> buff]
        num(key, v) == [lines |-> <<ExportLine(key, assoc, "num", v)>>, buff |-> buff]
        ew == encode_whitespaces(buff, ipo, i_len)
    IN  CASE desig_type = 0 ->
                IF i_len = 0 \/ i_len > 128 THEN none
                ELSE IF c_set \in {2, 3}
                THEN [lines |-> IF ew.res > 0
                                THEN <<ExportLine("VENDOR", assoc, "text",
                                                  UdevEncode(ew.str, ipo, ew.res))>>
                                ELSE <<>>,
                      buff |-> ew.str]
                ELSE hex("VENDOR")
          [] desig_type = 1 ->
                IF c_set \in {2, 3}
                THEN [lines |-> <<ExportLine("T10", assoc, "text",
                                             UdevEncode(ew.str, ipo, ew.res))>>
                                \o (IF BytesAt(ew.str, ipo, 4) = <<65, 84, 65, 95>>
                                    THEN <<ExportLine("ATA", assoc, "text",
                                                      StrPrec(ew.str, ipo + 4, ew.res - 4))>>
                                    ELSE <<>>),
                      buff |-> ew.str]
                ELSE hex("T10")
          [] desig_type = 2 -> IF c_set # 1 THEN none ELSE hex("EUI64")
          [] desig_type = 3 ->
                IF c_set # 1 THEN none
                ELSE hex(CASE At(buff, ipo) \div 16 = 6 -> "NAA_REGEXT"
                           [] At(buff, ipo) \div 16 = 5 -> "NAA_REG"
                           [] At(buff, ipo) \div 16 = 2 -> "NAA_EXT"
                           [] OTHER -> "NAA_LOCAL")
          [] desig_type = 4 ->
                IF c_set # 1 \/ assoc # 1 \/ i_len # 4 THEN none
                ELSE num("RELATIVE", <<sg_get_unaligned_be16(buff, ipo + 2)>>)
          [] desig_type = 5 ->
                IF c_set # 1 \/ assoc # 1 \/ i_len # 4 THEN none
                ELSE num("TARGET_PORT_GROUP", <<sg_get_unaligned_be16(buff, ipo + 2)>>)
          [] desig_type = 6 ->
                IF c_set # 1 \/ assoc # 0 \/ i_len # 4 THEN none
                ELSE num("LOGICAL_UNIT_GROUP", <<sg_get_unaligned_be16(buff, ipo + 2)>>)
          [] desig_type = 7 -> IF c_set # 1 \/ assoc # 0 THEN none ELSE hex("MD5")
          [] desig_type = 8 ->
                IF c_set # 3 THEN none
                ELSE [lines |-> <<ExportLine("NAME", assoc, "text", StrN(buff, ipo, i_len))>>,
                      buff |-> buff]
          [] desig_type = 9 ->
                IF p_id = 9
                THEN IF i_len # 4 \/ assoc # 1 THEN none
                     ELSE [lines |-> <<ExportLine("UAS_DEVICE_ADDRESS", assoc, "num",
                                                  <<BitAnd(At(buff, ipo), 127)>>),
                                       ExportLine("UAS_INTERFACE_NUMBER", assoc, "num",
                                                  <<At(buff, ipo + 2)>>)>>,
                           buff |-> buff]
                ELSE IF p_id = 10
                THEN IF i_len # 4 /\ i_len # 8 THEN none
                     ELSE num("SOP_ROUTING_ID", <<sg_get_unaligned_be16(buff, ipo)>>)
                ELSE none
          [] desig_type = 10 ->
                IF c_set # 1 \/ i_len < 18 THEN none
                ELSE [lines |-> <<ExportLine("UUID", assoc, "hex",
                                             BytesAt(buff, ipo + 2, i_len - 2))>>,
                      buff |-> buff]
          [] OTHER -> none

\* The for loop of export_dev_ids, entered at its condition with the cursor
\* at off, the lines written so far and the buffer as it stands
RECURSIVE ExportLoop(_, _, _, _)
ExportLoop(buff, len, off, lines) ==
    LET it == sg_vpd_dev_id_iter(buff, len, off)
        bpo == it.off
        i_len == At(buff, bpo + 3)
        assoc == (At(buff, bpo + 1) \div 16) % 4
        d == ExportDesig(buff, bpo + 4, i_len, At(buff, bpo) \div 16,
                         At(buff, bpo) % 16, assoc, At(buff, bpo + 1) % 16)
    IN  IF it.u # 0 \/ bpo + i_len + 4 > len \/ assoc = 3
        THEN [lines |-> lines, buff |-> buff]
        ELSE ExportLoop(d.buff, len, bpo, lines \o d.lines)

\* export_dev_ids(buff, len, verbose)
export_dev_ids(buff, len) ==
    IF At(buff, 2) # 0
    THEN LET d == ExportDesig(buff, 0, len, 15, 1, 0, 3)
         IN  ExportLoop(d.buff, len, 16, d.lines)
    ELSE ExportLoop(buff, len, -1, <<>>)

\* case VPD_UNIT_SERIAL_NUM of vpd_decode with op->do_export: the page of len
\* bytes is copied to obuff and encoded there
ExportSerial(rp, len) ==
    LET n == Min(len - 4, DEF_ALLOC_LEN - 1)
        obuff == BytesAt(rp, 4, n) \o Zeros(DEF_ALLOC_LEN - n)
        ew == encode_whitespaces(obuff, 0, n)
    IN  [lines |-> IF ew.res > 0
                   THEN <<ExportLine("SERIAL", 0, "text", UdevEncode(ew.str, 0, ew.res))>>
                   ELSE <<>>,
         buff |-> rp]

(***************************************************************************)
(* sg_inq: vpd_decode, the choice of a decoder for a VPD page              *)
(***************************************************************************)
\* vpd_page_is_supported(vpd_pg0, v0_len, pg_num, vb)
vpd_page_is_supported(vpd_pg0, v0_len, pg_num) ==
    /\ v0_len >= 4
    /\ \E k \in 4..(Min(At(vpd_pg0, 3) + 4, v0_len) - 1) : At(vpd_pg0, k) = pg_num

\* The length vpd_fetch_page gives for the page that rp holds
PageLen(rp) == sg_get_unaligned_be16(rp, 2) + 4

\* The peripheral device types of the cases: PDT_DISK, PDT_WO, PDT_OPTICAL
\* and PDT_ZBC; PDT_TAPE and PDT_MCHANGER
SbcPdts == {0, 4, 7, 20}

SscPdts == {1, 8}

\* The page numbers that have a case of their own in the switch of vpd_decode
VpdCases == {0, 128} \cup 131..141 \cup 143..146 \cup 176..186 \cup {192, 194, 201, 222}

\* What vpd_decode did: res is its return value, how the way the page was
\* written, lines the export lines and buff the response buffer afterwards
VpdDone(res, how, lines, buff) ==
    [res |-> res, how |-> how, lines |-> lines, buff |-> buff]

\* vpd_mainly_hex(ptvp, op, jop, off) for a page that is fetched again
\* without an error
vpd_mainly_hex(rp, op) ==
    VpdDone(0, IF op.do_raw THEN "raw"
               ELSE IF op.vpd_pn = 0 THEN "decoded"
               ELSE "mainly_hex", <<>>, rp)

\* decode_b0_vpd, decode_b1_vpd and decode_b3_vpd: the pages 0xb0, 0xb1 and
\* 0xb3 of a device type that is not a disk
DecodeBx(pn, pdt, dhex, do_hex) ==
    CASE pn = 176 ->
            IF dhex > 0 /\ dhex < 3 THEN "hex"
            ELSE IF pdt \in SscPdts THEN (IF dhex > 2 THEN "hex" ELSE "decoded")
            ELSE IF pdt = 17 /\ dhex > 2 THEN "hex"
            ELSE "hex_stderr"
      [] pn = 177 ->
            IF do_hex > 0 THEN "hex"
            ELSE IF pdt \in SscPdts \cup {18} THEN "decoded"
            ELSE "hex_stderr"
      [] OTHER ->
            IF do_hex > 0 THEN "hex"
            ELSE IF pdt \in SscPdts THEN "decoded"
            ELSE "hex_stderr"

\* The cases 0xb0 to 0xba of vpd_decode when raw output is not asked for
DecodeB0ToBa(rp, pn, pdt, dhex, op) ==
    IF pdt \in SbcPdts
    THEN VpdDone(IF pn = 178 THEN op.sub_res ELSE 0, "decoded", <<>>, rp)
    ELSE CASE pn = 176 ->
                IF pdt \in SscPdts \cup {17}
                THEN VpdDone(0, DecodeBx(pn, pdt, dhex, op.do_hex), <<>>, rp)
                ELSE VpdDone(0, "header_only", <<>>, rp)
           [] pn \in {177, 179} -> VpdDone(0, DecodeBx(pn, pdt, dhex, op.do_hex), <<>>, rp)
           [] pn = 178 ->
                IF pdt \in SscPdts THEN VpdDone(0, "decoded", <<>>, rp)
                ELSE vpd_mainly_hex(rp, op)
           [] pn = 180 ->
                IF pdt \in SscPdts THEN VpdDone(0, "hex", <<>>, rp)
                ELSE vpd_mainly_hex(rp, op)
           [] pn = 181 ->
                IF pdt \in SscPdts THEN VpdDone(0, "decoded", <<>>, rp)
                ELSE vpd_mainly_hex(rp, op)
           [] OTHER -> vpd_mainly_hex(rp, op)

\* vpd_decode(ptvp, op, jop, 0) for a page that the device or the input file
\* gives without an error: rp holds the page, op.pg0 is the Supported VPD
\* pages page of the device
vpd_decode(rp, ptvp, op) ==
    LET pn == op.vpd_pn
        len == PageLen(rp)
        dhex == IF op.do_hex < 0 THEN 0 - op.do_hex ELSE op.do_hex
        pdt == At(rp, 0) % 32
        done(how) == VpdDone(0, how, <<>>, rp)
    IN  IF ptvp /\ ~op.do_force /\ pn # 0
           /\ ~vpd_page_is_supported(op.pg0, PageLen(op.pg0), pn)
        THEN VpdDone(50 + 33, "not_listed", <<>>, rp)
        ELSE CASE pn = 0 ->
                    done(IF op.do_raw THEN "raw" ELSE IF dhex # 0 THEN "hex" ELSE "decoded")
               [] pn = 128 ->
                    IF op.do_raw THEN done("raw")
                    ELSE IF dhex > 0 THEN done("hex")
                    ELSE IF op.do_export
                    THEN VpdDone(0, "export", ExportSerial(rp, len).lines, rp)
                    ELSE done("decoded")
               [] pn = 131 ->
                    IF op.do_raw THEN done("raw")
                    ELSE IF dhex > 2 THEN done("hex")
                    ELSE IF op.do_export /\ ~op.as_json
                    THEN LET x == export_dev_ids(SubSeq(rp, 5, Len(rp)), len - 4)
                         IN  VpdDone(0, "export", x.lines, SubSeq(rp, 1, 4) \o x.buff)
                    ELSE done("decoded")
               [] pn \in 176..186 ->
                    IF op.do_raw THEN done("raw")
                    ELSE DecodeB0ToBa(rp, pn, pdt, dhex, op)
               [] pn \in VpdCases -> done(IF op.do_raw THEN "raw" ELSE "decoded")
               [] pn > 0 /\ pn < 128 ->
                    done(IF op.do_raw THEN "raw"
                         ELSE IF dhex > 0 THEN "hex"
                         ELSE "ascii_inf")
               [] OTHER -> vpd_mainly_hex(rp, op)

VpdDecode(rp, ptvp, op) ==
    \E r \in {vpd_decode(rp, ptvp, op)} :
        /\ last' = [last EXCEPT !.op = "vpd_decode", !.ret = r.res,
                                !.out = r.buff,
                                !.resp = [how |-> r.how, lines |-> r.lines]]
        /\ UNCHANGED <<caching_m_pg, ctrl_m_pg, iec_m_pg, vs_ua_m_pg, dev, hist>>

(***************************************************************************)
(* Specification SpecVpd: one call of vpd_decode on a page that was        *)
(* obtained without an error                                               *)
(***************************************************************************)
\* A VPD page: its four byte header and its body
MkVpdPage(pdt, pn, body) == <<pdt, pn, Len(body) \div 256, Len(body) % 256>> \o body

\* The Supported VPD pages page of a device that lists the pages pns
MkPg0(pdt, pns) == MkVpdPage(pdt, 0, pns)

PagesTried ==
    {0, 1, 66, 127, 128, 131, 132, 137, 142, 147, 153, 175} \cup 176..191
    \cup {192, 193, 222, 255}

\* Disk, tape, processor, enclosure, OSD, ADC and zoned block device
PdtsTried == {0, 1, 3, 13, 17, 18, 20}

\* Whether a device is there, whether --force was given and whether the
\* device lists the page
DeviceChoices ==
    {<<FALSE, FALSE, TRUE>>, <<TRUE, FALSE, TRUE>>, <<TRUE, FALSE, FALSE>>,
     <<TRUE, TRUE, FALSE>>}

MkOp(pn, pdt, do_raw, do_hex, as_json, do_export, dc, sub_res) ==
    [vpd_pn |-> pn, do_raw |-> do_raw, do_hex |-> do_hex, as_json |-> as_json,
     do_export |-> do_export, do_force |-> dc[2],
     pg0 |-> MkPg0(pdt, IF dc[3] THEN <<0, pn>> ELSE <<0>>), sub_res |-> sub_res]

\* The strings of at most n characters of the set a
RECURSIVE StringsOver(_, _)
StringsOver(a, n) ==
    IF n = 0 THEN {<<>>}
    ELSE StringsOver(a, n - 1)
         \cup {<<c>> \o s : c \in a, s \in {t \in StringsOver(a, n - 1) : Len(t) = n - 1}}

\* Blank, 'A', '$', NUL, a byte above 0x7f and '_'; and with a tab
IdentStrings ==
    StringsOver({32, 65, 36, 0, 200, 95}, 4) \cup StringsOver({9, 66, 32}, 3)
    \cup {<<65, 84, 65, 32>> \o s : s \in StringsOver({32, 65, 36}, 3)}

StagedVpd(page, ptvp, op) ==
    Staged(<<>>, page \o Zeros(GuardLen), 0, [ptvp |-> ptvp, op |-> op])

InitVpd ==
    /\ InitStatics
    /\ dev = [d \in Devs |-> NewDev(0, FALSE)]
    /\ \/ \E pn \in PagesTried, pdt \in PdtsTried, do_raw \in BOOLEAN,
             do_hex \in {-1, 0, 1, 3}, as_json \in BOOLEAN,
             do_export \in BOOLEAN, dc \in DeviceChoices, sub_res \in {0, 5} :
             /\ sub_res # 0 => pn = 178 /\ pdt \in SbcPdts
             /\ last = StagedVpd(MkVpdPage(pdt, pn, IF pn = 131 THEN ARelPort \o ANaa5
                                                    ELSE <<32, 65, 66, 32>>),
                                 dc[1], MkOp(pn, pdt, do_raw, do_hex, as_json,
                                             do_export, dc, sub_res))
       \/ \E s \in IdentStrings, desig_type \in {0, 1, 8}, c_set \in {1, 2, 3},
             assoc \in {0, 1, 3}, bf \in {<<>>, ARelPort}, ptvp \in BOOLEAN :
             last = StagedVpd(MkVpdPage(0, 131,
                                        bf \o Desig(0, c_set, 0, assoc, desig_type, 0, s)
                                        \o ANaa5),
                              ptvp, MkOp(131, 0, FALSE, 0, FALSE, TRUE,
                                         <<ptvp, FALSE, TRUE>>, 0))
       \/ \E s \in IdentStrings, as_json \in BOOLEAN, do_export \in BOOLEAN :
             last = StagedVpd(MkVpdPage(0, 128, s), FALSE,
                              MkOp(128, 0, FALSE, 0, as_json, do_export,
                                   <<FALSE, FALSE, TRUE>>, 0))

NextVpd ==
    /\ last.op = "staged"
    /\ VpdDecode(last.dop, last.aux.ptvp, last.aux.op)

SpecVpd == InitVpd /\ [][NextVpd]_vars

(***************************************************************************)
(* sg_inq: get_vpd_page_info, the table lookup that names a VPD page        *)
(***************************************************************************)
\* A row of the tables: the page number, the device type (-1 for any) and
\* the acronym
Row(value, pdt, acron) == [value |-> value, pdt |-> pdt, acron |-> acron]

\* The row that ends a table, and the result NULL
EndRow == Row(0, 0, "")

\* The table of T10 pages, sorted by acronym, with the page numbers of the
\* VPD_* names
t10_vpd_pg ==
    <<Row(179, 1, "adsn"), Row(137, -1, "ai"), Row(177, 0, "bdc"),
      Row(181, 0, "bdce"), Row(176, 0, "bl"), Row(183, 0, "ble"),
      Row(186, 0, "cap"), Row(140, 0, "cfa"), Row(185, 0, "cpr"),
      Row(139, -1, "dc"), Row(131, -1, "di"), Row(180, 1, "dtde"),
      Row(134, -1, "ei"), Row(184, 0, "fp"), Row(181, 0, "lbpro"),
      Row(178, 0, "lbpv"), Row(177, 1, "mas"), Row(177, 18, "masa"),
      Row(133, -1, "mna"), Row(135, -1, "mpp"), Row(222, -1, "nicr"),
      Row(138, -1, "po"), Row(141, -1, "psm"), Row(144, -1, "pslu"),
      Row(145, -1, "pspo"), Row(179, 0, "ref"), Row(176, 1, "sad"),
      Row(180, 0, "sbl"), Row(146, -1, "sfs"), Row(132, -1, "sii"),
      Row(-2, -1, "sinq"), Row(128, -1, "sn"), Row(136, -1, "sp"),
      Row(0, -1, "sv"), Row(178, 1, "tas"), Row(143, -1, "tpc"),
      Row(182, 0, "zbdc"), EndRow>>

\* The table of vendor specific pages
vs_vpd_pg ==
    <<Row(192 + 9, -1, "rdac_vac"), Row(192 + 2, -1, "rdac_vers"),
      Row(192, -1, "upr"), EndRow>>

\* for (; vnp->acron; ++vnp) if (vnp->value == vpd_page_num) break;
\* the index of the row the scan from row k stops at
RECURSIVE ScanValue(_, _, _)
ScanValue(tbl, k, vpd_page_num) ==
    IF tbl[k].acron = "" \/ tbl[k].value = vpd_page_num THEN k
    ELSE ScanValue(tbl, k + 1, vpd_page_num)

\* for (vnp = vs_vpd_pg; vnp->acron; ++vnp) if (vnp->pdt == dev_pdt) ...
RECURSIVE ScanPdt(_, _, _)
ScanPdt(tbl, k, dev_pdt) ==
    IF tbl[k].acron = "" \/ tbl[k].pdt = dev_pdt THEN k
    ELSE ScanPdt(tbl, k + 1, dev_pdt)

\* As get_vpd_page_info, but taking the first row with the page number
\* whatever the device type
get_vpd_page_info_first_match(vpd_page_num, dev_pdt, decay_pdt) ==
    LET k == ScanValue(t10_vpd_pg, 1, vpd_page_num)
    IN  IF vpd_page_num < 192 THEN t10_vpd_pg[k]
        ELSE vs_vpd_pg[ScanPdt(vs_vpd_pg, 1, dev_pdt)]

\* The row returned, EndRow standing for NULL; decay_pdt is what
\* sg_lib_pdt_decay(dev_pdt) returns
get_vpd_page_info(vpd_page_num, dev_pdt, decay_pdt) ==
    LET k1 == ScanValue(t10_vpd_pg, 1, vpd_page_num)
        r1 == t10_vpd_pg[k1]
        k2 == ScanValue(t10_vpd_pg, k1 + 1, vpd_page_num)
        r2 == t10_vpd_pg[k2]
        k3 == ScanValue(t10_vpd_pg, k2 + 1, vpd_page_num)
        r3 == t10_vpd_pg[k3]
    IN  IF vpd_page_num < 176 THEN r1
        ELSE IF vpd_page_num < 192
        THEN IF r1.acron = "" THEN EndRow
             ELSE IF r1.pdt = dev_pdt THEN r1
             ELSE IF r2.acron = ""
             THEN (IF decay_pdt = r1.pdt THEN r1 ELSE EndRow)
             ELSE IF r2.pdt = dev_pdt \/ r2.pdt = decay_pdt THEN r2
             ELSE IF decay_pdt = r1.pdt THEN r1
             ELSE IF r3.acron = "" THEN EndRow
             ELSE IF r3.pdt = dev_pdt \/ r3.pdt = decay_pdt THEN r3
             ELSE EndRow
        ELSE vs_vpd_pg[ScanPdt(vs_vpd_pg, 1, dev_pdt)]

\* decode_supported_vpd_4vpd looks one page number of the list up
VpdPageInfo(vpd, pdt, decay_pdt) ==
    /\ last' = [last EXCEPT !.op = "get_vpd_page_info",
                            !.out = get_vpd_page_info(vpd, pdt, decay_pdt)]
    /\ UNCHANGED <<caching_m_pg, ctrl_m_pg, iec_m_pg, vs_ua_m_pg, dev, hist>>

(***************************************************************************)
(* Specification SpecPageInfo: one lookup, for every page number, every     *)
(* device type of five bits and the classes it may decay to                 *)
(***************************************************************************)
\* What sg_lib_pdt_decay may return for a device type: the type itself or
\* the disk, tape or OSD class
DecayChoices(pdt) == {pdt, 0, 1, 17}

InitPageInfo ==
    /\ InitStatics
    /\ dev = [d \in Devs |-> NewDev(0, FALSE)]
    /\ \E vpd \in 0..255, pdt \in 0..31 :
          \E decay_pdt \in DecayChoices(pdt) :
             last = Staged(<<>>, <<>>, 0,
                           [vpd |-> vpd, pdt |-> pdt, decay_pdt |-> decay_pdt])

NextPageInfo ==
    /\ last.op = "staged"
    /\ VpdPageInfo(last.aux.vpd, last.aux.pdt, last.aux.decay_pdt)

SpecPageInfo == InitPageInfo /\ [][NextPageInfo]_vars

(***************************************************************************)
(* The loops, one iteration at a time: the two scans of the opcode table,   *)
(* the fill loop of REPORT LUNS and the page loop of sg_inq's               *)
(* svpd_inhex_decode_all                                                    *)
(***************************************************************************)
\* A loop in progress: its name, the buffer it reads and its local variables
InLoop(loop, buf, locals) == [NoCall EXCEPT !.op = loop, !.dop = buf, !.aux = locals]

\* The loop has been left
LoopDone(why) == [last EXCEPT !.op = "done", !.aux.loop = last.op, !.aux.why = why]

\* for (oip = sg_get_opcode_translation(); oip->flags != 0xffff; ++oip)
\*     if ((req_opcode == oip->opcode) && (req_sa == oip->sa)) break;
ScanStep ==
    /\ last.op = "scan"
    /\ LET oip == sg_opcode_info_arr[last.aux.k]
       IN  last' = IF oip.flags = SENTINEL_FLAGS THEN LoopDone("sentinel")
                   ELSE IF last.aux.req_opcode = oip.opcode
                           /\ last.aux.req_sa = oip.sa
                   THEN LoopDone("found")
                   ELSE [last EXCEPT !.aux.k = @ + 1]
    /\ UNCHANGED <<caching_m_pg, ctrl_m_pg, iec_m_pg, vs_ua_m_pg, dev, hist>>

\* for (offset = 4, oip = sg_get_opcode_translation();
\*      (oip->flags != 0xffff) && (offset < a_len); ++oip)
ScanAllStep ==
    /\ last.op = "scan all"
    /\ LET oip == sg_opcode_info_arr[last.aux.k]
       IN  last' = IF oip.flags = SENTINEL_FLAGS THEN LoopDone("sentinel")
                   ELSE IF ~(last.aux.offset < last.aux.a_len)
                   THEN LoopDone("full")
                   ELSE [last EXCEPT !.aux.k = @ + 1,
                                     !.aux.offset =
                                         IF HasFlag(oip.flags, F_INV_OP) THEN @
                                         ELSE @ + (IF last.aux.rctd THEN 20 ELSE 8)]
    /\ UNCHANGED <<caching_m_pg, ctrl_m_pg, iec_m_pg, vs_ua_m_pg, dev, hist>>

\* for (k = 0, up = rl_din + 8; k < num; ++k, up += 8)
\*     if (up < (rl_din + rl_din_sz)) sg_put_unaligned_be16(k, up);
FillStep ==
    /\ last.op = "fill"
    /\ last' = IF last.aux.k < last.aux.num
               THEN [last EXCEPT !.aux.k = @ + 1,
                                 !.aux.stored = IF 8 + 8 * last.aux.k < rl_din_sz
                                                THEN @ + 1 ELSE @]
               ELSE LoopDone("end")
    /\ UNCHANGED <<caching_m_pg, ctrl_m_pg, iec_m_pg, vs_ua_m_pg, dev, hist>>

\* As svpd_inhex_bump, but without the four bytes of the page header
svpd_inhex_bump_body_only(buf, off, in_len) ==
    LET bump == sg_get_unaligned_be16(buf, off + 2)
    IN  IF off + bump > in_len THEN in_len - off ELSE bump

\* bump = sg_get_unaligned_be16(rp + 2) + 4;
\* if ((off + bump) > in_len) bump = in_len - off;
svpd_inhex_bump(buf, off, in_len) ==
    LET bump == sg_get_unaligned_be16(buf, off + 2) + 4
    IN  IF off + bump > in_len THEN in_len - off ELSE bump

\* One pass through the body of the for loop of svpd_inhex_decode_all; seen
\* keeps, for every page the loop went past, its number, prev_pn and the
\* number of the page decoded last as they were, and what was done with it
InhexStep ==
    /\ last.op = "inhex"
    /\ LET a == last.aux
           pn == At(last.dop, a.off + 1)
           bump == svpd_inhex_bump(last.dop, a.off, a.in_len)
           dec == IF a.decoded = <<>> THEN -1 ELSE a.decoded[Len(a.decoded)]
           past(what) == Append(a.seen, [pn |-> pn, prev_pn |-> a.prev_pn,
                                         dec |-> dec, what |-> what])
       IN  last' =
             IF ~(a.off < a.in_len) THEN LoopDone("end")
             ELSE IF a.page_given /\ pn # a.vpd_pn
             THEN [last EXCEPT !.aux.off = @ + bump,
                               !.aux.seen = past("filtered")]
             ELSE IF pn <= a.prev_pn THEN LoopDone("not ascending")
             ELSE IF pn > a.max_pn
             THEN [last EXCEPT !.aux.off = @ + bump, !.aux.prev_pn = pn,
                               !.aux.vpd_pn = pn, !.aux.seen = past("over max")]
             ELSE [last EXCEPT !.aux.off = @ + bump, !.aux.prev_pn = pn,
                               !.aux.vpd_pn = pn, !.aux.seen = past("decoded"),
                               !.aux.decoded = Append(@, pn)]
    /\ UNCHANGED <<caching_m_pg, ctrl_m_pg, iec_m_pg, vs_ua_m_pg, dev, hist>>

(***************************************************************************)
(* Specification SpecLoops: one of the loops run from its start, and        *)
(* SpecLoopsFair, in which a loop that can take a step takes it             *)
(***************************************************************************)
\* A page of n bytes after its header, as a file of concatenated pages has
\* it; the bytes are the letter A
InhexPage(pn, n) == <<0, pn, n \div 256, n % 256>> \o Fill(n, 65)

\* Files of one to three pages
InhexFiles ==
    {Flatten(ps) : ps \in
        UNION {[1..m -> {InhexPage(pn, n) : pn \in {0, 128, 131}, n \in {0, 4}}] :
                 m \in 1..3}}

\* op->vpd_pn when no page was asked for: the page number guessed from the
\* start of the file, -1 when it looks like a standard INQUIRY response
GuessedPage(rsp_buff) ==
    IF At(rsp_buff, 2) > 2 THEN -1
    ELSE IF At(rsp_buff, 1) = 128
            /\ \E i \in 5..7 : At(rsp_buff, i) < 32 \/ At(rsp_buff, i) > 128
    THEN -1
    ELSE At(rsp_buff, 1)

\* int max_pn = 255; if (op->vpd_pn > 0) max_pn = op->vpd_pn;
\* op->vpd_pn is the page asked for or, when none was, the page guessed
InhexStart(buf, cut, stale, page_given, vpd_pn) ==
    InLoop("inhex", buf \o Fill(4, stale),
           [loop |-> "", why |-> "", in_len |-> Max(0, Len(buf) - cut),
            off |-> 0, prev_pn |-> -1, page_given |-> page_given,
            vpd_pn |-> vpd_pn, max_pn |-> IF vpd_pn > 0 THEN vpd_pn ELSE 255,
            seen |-> <<>>, decoded |-> <<>>])

InitLoops ==
    /\ InitStatics
    /\ dev = [d \in Devs |-> NewDev(0, FALSE)]
    /\ \/ \E req_opcode \in {18, 85, 163, 255}, req_sa \in {0, 12} :
             last = InLoop("scan", <<>>,
                           [loop |-> "", why |-> "", k |-> 1,
                            req_opcode |-> req_opcode, req_sa |-> req_sa])
       \/ \E rctd \in BOOLEAN :
             last = InLoop("scan all", <<>>,
                           [loop |-> "", why |-> "", k |-> 1, offset |-> 4,
                            rctd |-> rctd, a_len |-> pg_sz - 72])
       \/ \E sel_report \in {0, 1, 2, 16, 17, 18}, nsid \in {1, 2},
             max_nsid \in {0, 1, 31, 40} :
             last = InLoop("fill", <<>>,
                           [loop |-> "", why |-> "", k |-> 0, stored |-> 0,
                            sel_report |-> sel_report, nsid |-> nsid,
                            max_nsid |-> max_nsid,
                            num |-> RlunsNum(sel_report, nsid, max_nsid)])
       \/ \E buf \in InhexFiles, cut \in {0, 1, 3}, stale \in {0, 255},
             given \in {-1, 0, 128, 131} :
             last = InhexStart(buf, cut, stale, given >= 0,
                               IF given >= 0 THEN given
                               ELSE GuessedPage(buf \o Fill(4, stale)))

NextLoops == ScanStep \/ ScanAllStep \/ FillStep \/ InhexStep

SpecLoops == InitLoops /\ [][NextLoops]_vars

SpecLoopsFair == SpecLoops /\ WF_vars(NextLoops)

(***************************************************************************)
(* The claims                                                              *)
(***************************************************************************)
BuilderOps == {"mode_sense10", "rep_opcodes", "rep_tmfs", "inq", "rluns"}

\* The allocation length field of the CDB, whole: bytes 7 and 8 of MODE
\* SENSE(10), bytes 3 and 4 of INQUIRY, bytes 6 to 9 of the 12 byte CDBs
AllocLenField(cdb) ==
    CASE cdb[1] = 90 -> sg_get_unaligned_be16(cdb, 7)
      [] cdb[1] = 18 -> sg_get_unaligned_be16(cdb, 3)
      [] OTHER -> sg_get_unaligned_be32(cdb, 6)

\* The builder took the command: it made no sense data and returned a length
Accepted ==
    /\ last.op \in BuilderOps
    /\ last.resp = ZeroResp
    /\ last.ret >= 0
    /\ last.op = "rep_opcodes" => last.aux.mem_ok

\* C1: every accepted call of a response builder writes exactly
\* min(natural length, allocation length field of the CDB, mx_di_len) bytes
\* into the output buffer.
C1_Clamped ==
    Accepted =>
        Len(last.out) = Min(Min(last.offset, AllocLenField(last.cdb)), last.mx)

\* C2: sg_make_vpd_devid_for_nvme returns no more than max_di_len and writes
\* no byte of the output buffer at index max_di_len or beyond.
C2_WithinMaxDiLen ==
    last.op = "devid" =>
        /\ last.ret <= last.mx
        /\ \A i \in (last.mx + 1)..Len(last.out) : last.out[i] = Untouched

\* C3: when the capacity test of an append step (serial number, binary EUI
\* designator, SCSI name string designator) fails, no byte is written past
\* the buffer and the function returns the length written so far, the
\* cursor n.
C3_StopReturnsLength ==
    (last.op = "devid" /\ last.aux.stop \in {"sn", "eui", "name"}) =>
        /\ \A i \in (last.mx + 1)..Len(last.out) : last.out[i] = Untouched
        /\ last.ret = last.aux.n

\* The static page of one kind as it would stand had device state d alone
\* made calls: as loaded, or with the bytes after the first two taken from
\* the page d wrote last
OwnPage(d, kind, init) ==
    IF hist.by[d][kind] = <<>> THEN init
    ELSE Memcpy(init, 2, SubSeq(hist.by[d][kind], 3, Len(init)), Len(init) - 2)

\* C4: nothing but the device state carries over between calls: a MODE
\* SENSE(10) made with one device state returns what it would return, and
\* sg_snt_init_dev_stat sets the flags it would set, had the calls made with
\* the other device state never happened.
C4_DeviceStatesIsolated ==
    /\ last.op = "mode_sense10" =>
          LET r == sg_snt_resp_mode_sense10(
                       OwnPage(last.d, "caching", caching_m_pg_init),
                       OwnPage(last.d, "ctrl", ctrl_m_pg_init),
                       OwnPage(last.d, "iec", iec_m_pg_init),
                       OwnPage(last.d, "vs_ua", vs_ua_m_pg_init),
                       dev[last.d], last.cdb, last.mx)
          IN  last.ret = r.ret /\ last.out = r.out
    /\ last.op = "init_dev_stat" =>
          dev[last.d] = sg_snt_init_dev_stat(
                            dev[last.d],
                            OwnPage(last.d, "ctrl", ctrl_m_pg_init),
                            OwnPage(last.d, "vs_ua", vs_ua_m_pg_init))

\* The builder refused the command: it made sense data or returned an error
Rejected ==
    /\ last.op \in BuilderOps \cup {"mode_select10"}
    /\ last.resp # ZeroResp \/ last.ret < 0

\* C5: a builder that rejects its input sets CHECK CONDITION with a sense
\* key and an additional sense code in the result record, returns -1 and
\* writes nothing.
C5_RejectionUniform ==
    Rejected =>
        /\ last.ret = -1
        /\ last.resp.sstatus = SAM_STAT_CHECK_CONDITION
        /\ last.resp.sk # 0 /\ last.resp.asc # 0
        /\ last.out = <<>>
        /\ last.op = "mode_select10" => last.aux.wrote = "none"

\* The mode page of the parameter list of the last MODE SELECT(10): where it
\* starts, and whether it is a page the function has a stored page for, with
\* the stored page's length
SelectedOff == 8 + sg_get_unaligned_be16(last.dop, 6)

SelectedByte(i) == ArrAt(last.dop, Len(last.dop), SelectedOff + i, 0)

SelectedPageMatches ==
    /\ BitAnd(SelectedByte(0), 64) = 0
    /\ \/ BitAnd(SelectedByte(0), 63) = 8
          /\ SelectedByte(1) = At(caching_m_pg_init, 1)
       \/ BitAnd(SelectedByte(0), 63) = 10
          /\ SelectedByte(1) = At(ctrl_m_pg_init, 1)
       \/ BitAnd(SelectedByte(0), 63) = 28
          /\ SelectedByte(1) = At(iec_m_pg_init, 1)
       \/ BitAnd(SelectedByte(0), 63) = 0
          /\ SelectedByte(1) = At(vs_ua_m_pg_init, 1)

\* C6: MODE SELECT(10) succeeds only for the Caching, Control, Informational
\* Exceptions or vendor Unit Attention page with the stored page's length;
\* any other page, sub-page or length is answered with -1 and ILLEGAL
\* REQUEST, and nothing is written.
C6_OnlyMatchingPagesAccepted ==
    last.op = "mode_select10" =>
        /\ last.ret >= 0 => SelectedPageMatches
        /\ last.ret < 0 =>
              /\ last.ret = -1
              /\ last.resp.sk = SPC_SK_ILLEGAL_REQUEST
              /\ last.aux.wrote = "none"

\* The PF bit, the SP bit and the parameter list length of a MODE SELECT CDB
CdbPf(cdb) == (cdb[2] \div 16) % 2
CdbSp(cdb) == cdb[2] % 2
CdbParamLen(cdb) == cdb[8] * 256 + cdb[9]

\* C7: a MODE SELECT(10) CDB with PF=0, SP=1 or a parameter list length
\* above 512 is rejected before any parameter data is read: -1, ILLEGAL
\* REQUEST, INVALID FIELD IN CDB, the field pointer at byte 1 bit 0 for
\* SP=1, at byte 1 bit 4 for PF=0 with SP=0, at byte 7 for the length alone.
C7_CdbRejectedFirst ==
    (/\ last.op = "mode_select10"
     /\ \/ CdbPf(last.cdb) = 0
        \/ CdbSp(last.cdb) = 1
        \/ CdbParamLen(last.cdb) > 512) =>
        /\ last.ret = -1
        /\ last.resp.sstatus = SAM_STAT_CHECK_CONDITION
        /\ last.resp.sk = SPC_SK_ILLEGAL_REQUEST
        /\ last.resp.asc = INVALID_FIELD_IN_CDB /\ last.resp.ascq = 0
        /\ last.resp.in_byte = (IF CdbSp(last.cdb) = 1 \/ CdbPf(last.cdb) = 0
                                THEN 1 ELSE 7)
        /\ CdbSp(last.cdb) = 1 => last.resp.in_bit = 0
        /\ (CdbSp(last.cdb) = 0 /\ CdbPf(last.cdb) = 0) => last.resp.in_bit = 4
        /\ last.aux.used = 0 /\ last.aux.top = 0 - 1
        /\ last.aux.wrote = "none"

\* A CDB with PF=0 and SP=0 and a length within bounds was rejected
C7_Witness ==
    /\ last.op = "mode_select10"
    /\ CdbPf(last.cdb) = 0 /\ CdbSp(last.cdb) = 0 /\ CdbParamLen(last.cdb) <= 512
    /\ last.ret = -1 /\ last.resp.in_byte = 1 /\ last.resp.in_bit = 4

\* Bit 2 (mask 0x4) of byte 2 of a mode page: WCE of the Caching page,
\* D_SENSE of the Control page
Byte2Bit2(pg) == BitAnd(At(pg, 2), 4) # 0

\* The fields of a MODE SENSE(10) CDB, and the first mode page of a response
CdbPcontrol(cdb) == cdb[3] \div 64
CdbPcode(cdb) == cdb[3] % 64
FirstPage(out) == SubSeq(out, 8 + out[8] + 1, Len(out))

\* C8: for each device state, wce is the WCE bit of the Caching page it wrote
\* last (and wce_changed is set once it has written one), scsi_dsense is the
\* D_SENSE bit of the Control page it wrote last, and a MODE SENSE(10) with
\* pcontrol 0 made with it reports those same bits.
C8_FlagsTrackWrites ==
    \A d \in Devs :
        /\ hist.by[d].caching # <<>> =>
              /\ dev[d].wce = Byte2Bit2(hist.by[d].caching)
              /\ dev[d].wce_changed
        /\ hist.by[d].ctrl # <<>> =>
              dev[d].scsi_dsense = (IF Byte2Bit2(hist.by[d].ctrl) THEN 1 ELSE 0)
        /\ (/\ last.op = "mode_sense10" /\ last.d = d /\ last.ret > 0
            /\ CdbPcontrol(last.cdb) = 0) =>
              /\ (CdbPcode(last.cdb) = 8 /\ hist.by[d].caching # <<>>) =>
                    Byte2Bit2(FirstPage(last.out)) = Byte2Bit2(hist.by[d].caching)
              /\ (CdbPcode(last.cdb) = 10 /\ hist.by[d].ctrl # <<>>) =>
                    Byte2Bit2(FirstPage(last.out)) = Byte2Bit2(hist.by[d].ctrl)

\* C9: MODE SENSE(10) with pcontrol 3 (saved values) is rejected whatever
\* the page code, sub-page code, DBD, LLBAA and device type: -1, ILLEGAL
\* REQUEST, SAVING PARAMETERS NOT SUPPORTED, and nothing written.
C9_SavedValuesRejected ==
    (last.op = "mode_sense10" /\ CdbPcontrol(last.cdb) = 3) =>
        /\ last.ret = -1
        /\ last.resp.sstatus = SAM_STAT_CHECK_CONDITION
        /\ last.resp.sk = SPC_SK_ILLEGAL_REQUEST
        /\ last.resp.asc = SAVING_PARAMS_UNSUP /\ last.resp.ascq = 0
        /\ last.out = <<>>
        /\ caching_m_pg = caching_m_pg_init

\* All pages with sub-pages, saved values, asked of a disk, was rejected
C9_Witness ==
    /\ last.op = "mode_sense10" /\ CdbPcontrol(last.cdb) = 3
    /\ CdbPcode(last.cdb) = 63 /\ last.cdb[4] = 255
    /\ dev[1].pdt = 0 /\ last.mx = 256
    /\ last.ret = -1

\* The page codes (byte 0 without the PS bit) of the mode pages of s from
\* index i on, each page as long as its own length field says
RECURSIVE PageCodes(_, _)
PageCodes(s, i) ==
    IF i + 3 >= Len(s) THEN <<>>
    ELSE <<At(s, i) % 128>>
         \o PageCodes(s, i + (IF BitAnd(At(s, i), 64) # 0
                              THEN sg_get_unaligned_be16(s, i + 2) + 4
                              ELSE At(s, i + 1) + 2))

\* The block descriptor length the claim states for a CDB and a device type
ClaimedBdLen(cdb, pdt) ==
    IF IsDisk(pdt) /\ BitAnd(cdb[2], 8) = 0
    THEN (IF BitAnd(cdb[2], 16) # 0 THEN 16 ELSE 8)
    ELSE 0

\* The page codes the claim states, in order: 0x4a is the Control Extension
\* page, code 0x0a with the SPF bit
ClaimedPageCodes(cdb, pdt) ==
    <<2>> \o (IF IsDisk(pdt) THEN <<8>> ELSE <<>>) \o <<10>>
    \o (IF cdb[4] = 255 THEN <<74>> ELSE <<>>) \o <<28, 0>>

\* C10: MODE SENSE(10) for page 0x3f with pcontrol 0, 1 or 2 rejects a
\* sub-page code other than 0 and 0xff; otherwise the response starts with
\* the mode data length (the whole length less 2), the header gives the
\* block descriptor length (8, or 16 with LLBAA, for a disk with DBD=0, else
\* 0), and after the block descriptor come the pages Disconnect-Reconnect,
\* Caching (disk only), Control, Control Extension (sub-page 0xff only),
\* Informational Exceptions, vendor Unit Attention, in that order.
C10_AllPagesLayout ==
    (/\ last.op = "mode_sense10" /\ CdbPcode(last.cdb) = 63
     /\ CdbPcontrol(last.cdb) \in {0, 1, 2}) =>
        IF last.cdb[4] \notin {0, 255}
        THEN last.ret = -1 /\ last.out = <<>>
             /\ last.resp = sg_snt_mk_sense_invalid_fld(TRUE, 3, 255)
        ELSE /\ last.ret = Len(last.out)
             /\ last.ret = Min(Min(last.offset, AllocLenField(last.cdb)), last.mx)
             /\ last.ret >= 8 =>
                   /\ sg_get_unaligned_be16(last.out, 0) = last.offset - 2
                   /\ sg_get_unaligned_be16(last.out, 6)
                          = ClaimedBdLen(last.cdb, dev[1].pdt)
             /\ last.ret = last.offset =>
                   PageCodes(last.out, 8 + ClaimedBdLen(last.cdb, dev[1].pdt))
                       = ClaimedPageCodes(last.cdb, dev[1].pdt)

\* All pages with sub-pages, current values, asked of a disk with a long LBA
\* block descriptor, was returned whole: 8 + 16 + 16 + 20 + 12 + 32 + 12 + 15
C10_Witness ==
    /\ last.op = "mode_sense10" /\ CdbPcode(last.cdb) = 63
    /\ CdbPcontrol(last.cdb) = 0 /\ last.cdb[4] = 255
    /\ dev[1].pdt = 0 /\ ClaimedBdLen(last.cdb, dev[1].pdt) = 16
    /\ last.ret = last.offset /\ last.ret = 131
    /\ PageCodes(last.out, 24) = <<2, 8, 10, 74, 28, 0>>

\* The fields of the REPORT SUPPORTED OPERATION CODES CDB
CdbReportingOpts(cdb) == BitAnd(At(cdb, 2), 7)
CdbRctd(cdb) == BitAnd(At(cdb, 2), 128) # 0
CdbReqOpcode(cdb) == At(cdb, 3)
CdbReqSa(cdb) == sg_get_unaligned_be16(cdb, 4)

\* The reporting options that fit a row: 1 or 3 without a service action,
\* 2 or 3 with one
FittingOpts(row) == IF HasFlag(row.flags, FF_SA) THEN {2, 3} ELSE {1, 3}

\* The call names the row and uses a reporting option that fits it
NamesRow(cdb, row) ==
    /\ CdbReqOpcode(cdb) = row.opcode
    /\ CdbReqSa(cdb) = row.sa
    /\ CdbReportingOpts(cdb) \in FittingOpts(row)

\* C11: for every row of the opcode table before the sentinel, a one command
\* request that names the row's opcode and service action with a reporting
\* option that fits the row is answered (memory for the response obtained)
\* with SUPPORT = 3, a CDB size equal to len_mask[0], the opcode as the first
\* usage byte and len_mask[1 .. size-1] as the others; the response is cut
\* to the allocation length and to the buffer, and what is returned is the
\* start of just that response.
C11_RowRoundTrip ==
    (last.op = "rep_opcodes" /\ last.aux.mem_ok) =>
        \A i \in OpcodeRows :
            LET row == sg_opcode_info_arr[i]
                size == row.len_mask[1]
                full == 4 + size + (IF CdbRctd(last.cdb) THEN 12 ELSE 0)
                n == Len(last.out)
            IN  NamesRow(last.cdb, row) =>
                  /\ last.ret = Min(Min(full, AllocLenField(last.cdb)), last.mx)
                  /\ n = last.ret
                  /\ n > 1 => BitAnd(At(last.out, 1), 7) = 3
                  /\ n > 3 => sg_get_unaligned_be16(last.out, 2) = size
                  /\ n > 4 => At(last.out, 4) = row.opcode
                  /\ \A k \in 1..(size - 1) :
                        n > 4 + k => At(last.out, 4 + k) = row.len_mask[k + 1]

\* REPORT SUPPORTED TASK MANAGEMENT FUNCTIONS looked up with reporting
\* option 2 and the whole 16 byte response returned
C11_Witness ==
    /\ last.op = "rep_opcodes"
    /\ last.aux.mem_ok
    /\ NamesRow(last.cdb, sg_opcode_info_arr[23])
    /\ sg_opcode_info_arr[23].sa = 13
    /\ CdbReportingOpts(last.cdb) = 2
    /\ last.ret = 16
    /\ SubSeq(last.out, 5, 16) = <<163, 13, 128, 0, 0, 0, 255, 255, 255, 255, 0, 199>>

\* The VPD pages sg_snt_resp_inq builds
ImplementedVpdPages == {0, 128, 131, 134, 135, 146, 177, SG_NVME_VPD_NICR}

\* An INQUIRY with EVPD = 1 for a VPD page that is not built
UnimplementedVpd(cdb) ==
    /\ BitAnd(At(cdb, 1), 1) # 0
    /\ At(cdb, 2) \notin ImplementedVpdPages

\* A MODE SENSE(10) for a page or sub-page that is not built for the device
UnimplementedModePage(cdb, pdt) ==
    LET pcode == CdbPcode(cdb)
        subpcode == At(cdb, 3)
    IN  \/ pcode \notin {0, 2, 8, 10, 28, 63}
        \/ pcode \in {2, 28} /\ subpcode # 0
        \/ pcode = 8 /\ (subpcode # 0 \/ ~IsDisk(pdt))
        \/ pcode = 10 /\ subpcode \notin {0, 1}
        \/ pcode = 63 /\ subpcode \notin {0, 255}

\* A one command request, taken as far as the lookup, for an opcode and
\* service action pair that no row of the table holds
AbsentRowRequest ==
    /\ last.aux.mem_ok
    /\ AllocLenField(last.cdb) >= 4
    /\ AllocLenField(last.cdb) <= 65535
    /\ CdbReportingOpts(last.cdb) \in {1, 2, 3}
    /\ \A i \in OpcodeRows :
          ~(/\ CdbReqOpcode(last.cdb) = sg_opcode_info_arr[i].opcode
            /\ CdbReqSa(last.cdb) = sg_opcode_info_arr[i].sa)

\* -1 returned with ILLEGAL REQUEST, INVALID FIELD IN CDB and the field
\* pointer at one of the CDB bytes bs
RejectedAtCdbByte(bs) ==
    /\ last.ret = 0 - 1
    /\ last.resp.sstatus = SAM_STAT_CHECK_CONDITION
    /\ last.resp.sk = SPC_SK_ILLEGAL_REQUEST
    /\ last.resp.asc = INVALID_FIELD_IN_CDB
    /\ last.resp.ascq = 0
    /\ last.resp.in_byte \in bs

T10DesigMax == 16 + 40 + 20

\* C13: with a buffer large enough for it, the first designator starts at
\* offset 4 and is a T10 vendor ID designator (code set ASCII, association
\* target device, designator type 1) holding the vendor string "NVMe    ",
\* the model number up to its trailing spaces, which are dropped or turned
\* to underscores, and the serial number up to its trailing spaces; it is
\* padded with zeros to an end offset n that is a multiple of 4, dip[7] is
\* n - 8, and bytes 2 and 3 of the page are zero.
C13_T10Designator ==
    (last.op = "devid" /\ last.mx >= T10DesigMax) =>
        LET dip == last.out
            mn == last.aux.ctl.mn
            sn == last.aux.ctl.sn
            mk == NonBlankLen(mn, 40)
            sk == NonBlankLen(sn, 20)
            n == At(dip, 7) + 8
        IN  /\ At(dip, 2) = 0
            /\ At(dip, 3) = 0
            /\ BitAnd(At(dip, 4), 15) = 2
            /\ BitAnd(At(dip, 5), 48) = 32
            /\ BitAnd(At(dip, 5), 15) = 1
            /\ SubSeq(dip, 9, 16) = nvme_scsi_vendor_str
            /\ SubSeq(dip, 17, 16 + mk) = SubSeq(mn, 1, mk)
            /\ n % 4 = 0
            /\ last.ret >= n
            /\ ~last.aux.ns.present => last.ret = n
            /\ \E u \in 0..(40 - mk) :
                  /\ \A j \in 1..u : dip[16 + mk + j] = 95
                  /\ SubSeq(dip, 16 + mk + u + 1, 16 + mk + u + sk) = SubSeq(sn, 1, sk)
                  /\ n >= 16 + mk + u + sk
                  /\ n < 16 + mk + u + sk + 4
                  /\ \A i \in (16 + mk + u + sk)..(n - 1) : At(dip, i) = 0

\* A buffer that holds the longest page: the T10 designator and the two
\* NGUID designators of 20 and 40 bytes
DevidPageMax == T10DesigMax + 20 + 40

\* The value of a hexadecimal digit character, -1 for any other character
HexValue(c) ==
    IF c >= 48 /\ c <= 57 THEN c - 48
    ELSE IF c >= 65 /\ c <= 70 THEN c - 55
    ELSE IF c >= 97 /\ c <= 102 THEN c - 87
    ELSE 0 - 1

\* At offset off of dip: a binary EUI designator carrying the bytes id, then
\* a UTF-8 SCSI name string designator "eui." and two hex digits per byte
EuiDesignatorsAt(dip, off, id) ==
    LET sz == Len(id)
        o2 == off + 4 + sz
    IN  /\ BitAnd(At(dip, off), 15) = 1
        /\ BitAnd(At(dip, off + 1), 15) = 2
        /\ BitAnd(At(dip, off + 1), 48) = 0
        /\ At(dip, off + 3) = sz
        /\ SubSeq(dip, off + 5, off + 4 + sz) = id
        /\ BitAnd(At(dip, o2), 15) = 3
        /\ BitAnd(At(dip, o2 + 1), 15) = 8
        /\ BitAnd(At(dip, o2 + 1), 48) = 0
        /\ At(dip, o2 + 3) = 4 + 2 * sz
        /\ SubSeq(dip, o2 + 5, o2 + 8) = <<101, 117, 105, 46>>
        /\ \A k \in 1..sz :
              /\ HexValue(At(dip, o2 + 8 + 2 * (k - 1))) = id[k] \div 16
              /\ HexValue(At(dip, o2 + 9 + 2 * (k - 1))) = id[k] % 16

\* C14: with a buffer large enough for the whole page, a namespace structure
\* with a non-zero NGUID appends a binary EUI designator of the 16 NGUID
\* bytes and a name string "eui." with 32 hex digits, whatever the EUI-64
\* field holds; otherwise a non-zero EUI-64 appends a binary EUI designator
\* of its 8 bytes and a name string with 16 hex digits; with no namespace
\* structure or with both fields zero only the T10 designator is produced.
C14_NamespaceDesignators ==
    (last.op = "devid" /\ last.mx >= DevidPageMax) =>
        LET dip == last.out
            ns == last.aux.ns
            n == At(dip, 7) + 8
            nguid_set == \E i \in 1..16 : ns.nguid[i] # 0
            eui64_set == \E i \in 1..8 : ns.eui64[i] # 0
        IN  IF ns.present /\ nguid_set
            THEN last.ret = n + 60 /\ EuiDesignatorsAt(dip, n, ns.nguid)
            ELSE IF ns.present /\ eui64_set
            THEN last.ret = n + 36 /\ EuiDesignatorsAt(dip, n, ns.eui64)
            ELSE /\ last.ret = n
                 /\ \A i \in n..(last.mx - 1) : At(dip, i) \in {0, 95}

\* Both fields set: the NGUID designators are the ones appended
C14_Witness ==
    /\ last.op = "devid"
    /\ last.mx >= DevidPageMax
    /\ last.aux.ns = MkNs(AnNguid, AnEui64)
    /\ last.ret = At(last.out, 7) + 8 + 60
    /\ SubSeq(last.out, last.ret - 31, last.ret) =
          <<48, 49, 50, 51, 52, 53, 54, 55, 56, 57, 65, 66, 67, 68, 69, 70,
            49, 48, 51, 50, 53, 52, 55, 54, 57, 56, 66, 65, 68, 67, 70, 69>>

\* The designators of the staged region that lie whole inside the part of it
\* handed to the decoder, and where the i-th of them starts
WholeDesigs == {i \in 1..Len(last.aux.ends) : last.aux.ends[i] <= last.mx}

DesigStart(i) == IF i = 1 THEN 0 ELSE last.aux.ends[i - 1]

DesigBoundaries == {0} \cup {last.aux.ends[i] : i \in 1..Len(last.aux.ends)}

NaaOf(e) == At(last.dop, e.ipo) \div 16

\* The designator e breaks the rule of its type; name_sets are the code sets
\* allowed to a SCSI name string
BreaksRule(e, name_sets) ==
    CASE e.desig_type \in {2, 10} -> e.c_set # 1
      [] e.desig_type = 3 ->
            \/ e.c_set # 1
            \/ NaaOf(e) \in {2, 3, 5} /\ e.i_len # 8
            \/ NaaOf(e) = 6 /\ e.i_len # 16
      [] e.desig_type \in {4, 5} -> e.c_set # 1 \/ e.assoc # 1 \/ e.i_len # 4
      [] e.desig_type = 6 -> e.c_set # 1 \/ e.assoc # 0 \/ e.i_len # 4
      [] e.desig_type = 7 -> e.c_set # 1 \/ e.assoc # 0
      [] e.desig_type = 8 -> e.c_set \notin name_sets
      [] OTHER -> FALSE

DesigRejected(e) == e.res = "error" /\ e.val = <<>>

\* The walk went on after every designator, whatever came of it
WalkAdvanced ==
    last.resp.pre_spc \/ Len(last.out) = Cardinality(WholeDesigs)

\* C16 as stated: decode_dev_ids holds every designator to the code set,
\* association and length of its type (a SCSI name string to UTF-8); one that
\* breaks its rule gives a decode error and no decoded value, and the walk
\* goes on to the next designator
C16_TypeRulesAsStated ==
    last.op = "decode_dev_ids" =>
        /\ \A i \in 1..Len(last.out) :
              BreaksRule(last.out[i], {3}) => DesigRejected(last.out[i])
        /\ WalkAdvanced

\* C16 amended: without the hex option the rules are those stated, but a SCSI
\* name string may have the ASCII code set as well as UTF-8; a designator
\* that breaks its rule gives a decode error and no decoded value, an NAA 5
\* designator of 8 bytes in the binary code set is decoded, and the walk goes
\* on.  With the hex option every designator is hex dumped unchecked
C16_TypeRulesAmended ==
    last.op = "decode_dev_ids" =>
        /\ \A i \in 1..Len(last.out) :
              LET e == last.out[i]
              IN  IF last.aux.do_hex
                  THEN e.res = "hex" /\ e.val = BytesAt(last.dop, e.ipo, e.i_len)
                  ELSE /\ BreaksRule(e, {2, 3}) => DesigRejected(e)
                       /\ (e.desig_type = 3 /\ NaaOf(e) = 5 /\ e.c_set = 1
                           /\ e.i_len = 8) =>
                              /\ e.res = "value"
                              /\ e.val = <<5>> \o NaaRegistered(last.dop, e.ipo)
                       /\ (e.desig_type = 8 /\ e.c_set = 2) => e.res = "value"
        /\ WalkAdvanced

C16_Witness ==
    /\ last.op = "decode_dev_ids"
    /\ ~last.aux.do_hex
    /\ Len(last.out) = 3
    /\ last.out[2].desig_type = 3 /\ NaaOf(last.out[2]) = 5
    /\ last.out[2].c_set = 2 /\ last.out[2].i_len = 8
    /\ DesigRejected(last.out[2])
    /\ last.out[3].res = "value"

\* The characters [0-9A-Za-z#+-.:=@_]
SafeChars == 48..57 \cup 65..90 \cup 97..122 \cup {35, 43, 45, 46, 58, 61, 64, 95}

LowerHexDigits == 48..57 \cup 97..102

\* s is made of safe characters and of escapes \xHH only
RECURSIVE OnlySafeOrEscaped(_)
OnlySafeOrEscaped(s) ==
    IF s = <<>> THEN TRUE
    ELSE IF Head(s) \in SafeChars THEN OnlySafeOrEscaped(Tail(s))
    ELSE /\ Len(s) >= 4
         /\ s[1] = 92 /\ s[2] = 120
         /\ s[3] \in LowerHexDigits /\ s[4] \in LowerHexDigits
         /\ OnlySafeOrEscaped(SubSeq(s, 5, Len(s)))

\* C17: in export mode every identifier string written after KEY= (vendor
\* specific and T10 vendor ID designators in ASCII or UTF-8, SCSI name
\* strings, the unit serial number) is made only of the characters
\* [0-9A-Za-z#+-.:=@_] and of escapes \xHH
C17_ExportValuesSafe ==
    (last.op = "vpd_decode" /\ last.resp.how = "export") =>
        \A i \in 1..Len(last.resp.lines) :
            last.resp.lines[i].kind = "text" =>
                OnlySafeOrEscaped(last.resp.lines[i].val)

\* The same for the lines that pass through the udev-conforming encoding:
\* the vendor specific, T10 vendor ID and serial number values
C17_EncodedValuesSafe ==
    (last.op = "vpd_decode" /\ last.resp.how = "export") =>
        \A i \in 1..Len(last.resp.lines) :
            (/\ last.resp.lines[i].kind = "text"
             /\ last.resp.lines[i].key \in {"VENDOR", "T10", "SERIAL"}) =>
                OnlySafeOrEscaped(last.resp.lines[i].val)

\* C19: vpd_decode leaves the response buffer as it was fetched, for every
\* page and every output mode
C19_BufferUntouched ==
    last.op = "vpd_decode" => last.out = last.dop

\* The same without the export of the Device Identification page
C19_UntouchedButExport ==
    (last.op = "vpd_decode"
     /\ ~(last.aux.op.vpd_pn = 131 /\ last.resp.how = "export")) =>
        last.out = last.dop

\* The device types for which vpd_decode has a variant of a page in the
\* range 0xb0 to 0xbf
VariantPdts(pn) ==
    CASE pn = 176 -> SbcPdts \cup SscPdts \cup {17}
      [] pn = 177 -> SbcPdts \cup SscPdts \cup {17, 18}
      [] pn \in 178..181 -> SbcPdts \cup SscPdts
      [] pn \in 182..186 -> SbcPdts
      [] OTHER -> {}

\* The page was written as a hex dump (or raw, when raw output was asked for)
HexDumped == last.resp.how \in {"mainly_hex", "hex", "hex_stderr", "raw"}

\* The routing that C18 states, for the pages in the set pns
RoutedAsStated(pns) ==
    (/\ last.op = "vpd_decode"
     /\ last.resp.how # "not_listed"
     /\ last.aux.op.vpd_pn \in pns) =>
        LET pn == last.aux.op.vpd_pn
            pdt == At(last.dop, 0) % 32
        IN  /\ (pn \notin VpdCases /\ pn >= 1 /\ pn < 128) =>
                  /\ last.resp.how \in {"ascii_inf", "hex", "raw"}
                  /\ last.aux.op.do_raw = (last.resp.how = "raw")
                  /\ last.ret = 0
            /\ (pn \notin VpdCases /\ ~(pn >= 1 /\ pn < 128)) =>
                  /\ last.resp.how \in {"mainly_hex", "raw"}
                  /\ last.ret = 0
            /\ (pn \in 176..191 /\ pdt \notin VariantPdts(pn)) =>
                  /\ HexDumped
                  /\ last.ret = 0

\* C18: vpd_decode is total over the page numbers: a page without a handler
\* of its own goes to the ASCII information decoder when 1 <= page < 0x80
\* and is hex dumped otherwise; a page in 0xb0..0xbf whose device type
\* matches no variant is hex dumped too; all these paths return 0
C18_DispatchTotal == RoutedAsStated(0..255)

\* The same for every page but 0xb0
C18_DispatchButB0 == RoutedAsStated(0..255 \ {176})

\* The number of entries that C20 gives to the LUN list of the last REPORT
\* LUNS call, -1 for a select_report value that is to be rejected
RlunsEntriesStated ==
    LET sel_report == At(last.cdb, 2)
    IN  CASE sel_report \in {0, 2} -> last.aux.max_nsid
          [] sel_report \in {1, 16, 18} -> 0
          [] sel_report = 17 -> IF last.aux.nsid = 1 THEN last.aux.max_nsid ELSE 0
          [] OTHER -> -1

\* Byte i of the response that C20 states: the LUN list length in bytes 0 to
\* 3 and LUN k in the first two bytes of entry k.  The other bytes are free
RlunsByteStated(i, entries) ==
    IF i < 4
    THEN At(sg_put_unaligned_be32(Zeros(4), 0, 8 * entries), i) = At(last.out, i)
    ELSE (i >= 8 /\ (i - 8) % 8 < 2) =>
            At(last.out, i) = At(sg_put_unaligned_be16(Zeros(2), 0, (i - 8) \div 8),
                                 (i - 8) % 8)

\* The statement of C20 for the calls with at most most namespaces
RlunsAsStated(most) ==
    (last.op = "rluns" /\ last.aux.max_nsid <= most) =>
        IF RlunsEntriesStated < 0
        THEN /\ last.resp.sstatus = SAM_STAT_CHECK_CONDITION
             /\ last.resp.sk = SPC_SK_ILLEGAL_REQUEST
             /\ last.resp.asc = INVALID_FIELD_IN_CDB
             /\ last.resp.in_byte = 2
        ELSE /\ last.resp = ZeroResp
             /\ last.offset = 8 + 8 * RlunsEntriesStated
             /\ \A i \in 0..(Len(last.out) - 1) :
                   RlunsByteStated(i, RlunsEntriesStated)

\* C20: the REPORT LUNS response follows from select_report and the number
\* of namespaces: max_nsid entries for select_report 0 and 2, entry k
\* holding LUN k in its first two bytes; no entry for 1, 0x10 and 0x12;
\* max_nsid entries for 0x11 when nsid is 1 and none otherwise; bytes 0 to 3
\* hold 8 times the number of entries; every other select_report is rejected
\* with ILLEGAL REQUEST, INVALID FIELD IN CDB at byte 2
C20_ReportLuns == RlunsAsStated(40)

\* The same for the calls whose LUN list fits rl_din: at most 31 namespaces
C20_ReportLunsThatFit == RlunsAsStated(31)

\* What MODE SENSE(10) with the CDB cdb returns to device state d from the
\* static pages cpg, ctl, iec, vs and the device states ds
SenseBytes(cpg, ctl, iec, vs, ds, d, cdb) ==
    LET r == sg_snt_resp_mode_sense10(cpg, ctl, iec, vs, ds[d], cdb,
                                      SG_PT_C_MAX_MSENSE_SZ)
    IN  <<r.ret, r.out>>

\* C21: a MODE SELECT(10) that returns -1 changes nothing: the fields of
\* every device state and the stored current values of every mode page are
\* as before the call, and a MODE SENSE(10) of all pages returns the same
\* bytes before and after it
C21_FailedSelectChangesNothing ==
    [][(last'.op = "mode_select10" /\ last'.ret = -1) =>
          /\ dev' = dev
          /\ caching_m_pg' = caching_m_pg
          /\ ctrl_m_pg' = ctrl_m_pg
          /\ iec_m_pg' = iec_m_pg
          /\ vs_ua_m_pg' = vs_ua_m_pg
          /\ \A cdb \in {MkSenseCdb(FALSE, FALSE, 0, 63, 0, 65535)} :
                SenseBytes(caching_m_pg', ctrl_m_pg', iec_m_pg', vs_ua_m_pg',
                           dev', 1, cdb)
                = SenseBytes(caching_m_pg, ctrl_m_pg, iec_m_pg, vs_ua_m_pg,
                             dev, 1, cdb)]_vars

\* A MODE SELECT(10) has failed after earlier ones had changed the Caching
\* page, the Control page and the device state
C21_Witness ==
    /\ last.op = "mode_select10"
    /\ last.ret = -1
    /\ last.aux.used > 0
    /\ caching_m_pg # caching_m_pg_init
    /\ ctrl_m_pg # ctrl_m_pg_init
    /\ dev[1].wce_changed

\* The length of the mode page at index i of s as its own length field
\* gives it: the page length byte plus 2, or with SPF the two byte page
\* length plus 4
PageLenAt(s, i) ==
    IF BitAnd(At(s, i), 64) # 0
    THEN sg_get_unaligned_be16(s, i + 2) + 4
    ELSE At(s, i + 1) + 2

\* Where the mode pages of the response s start, walking from index i by
\* each page's own length
RECURSIVE PageStarts(_, _)
PageStarts(s, i) ==
    IF i + 1 >= Len(s) \/ (BitAnd(At(s, i), 64) # 0 /\ i + 3 >= Len(s))
    THEN <<>>
    ELSE <<i>> \o PageStarts(s, i + PageLenAt(s, i))

\* The index at which that walk ends
RECURSIVE WalkEnd(_, _)
WalkEnd(s, i) ==
    IF i + 1 >= Len(s) \/ (BitAnd(At(s, i), 64) # 0 /\ i + 3 >= Len(s))
    THEN i
    ELSE WalkEnd(s, i + PageLenAt(s, i))

\* Where the pages of a MODE SENSE(10) response start
ResponsePages(out) == PageStarts(out, 8 + sg_get_unaligned_be16(out, 6))

\* The bytes of the response that belong to the page at index i: as many as
\* its length field says, or as many as the response has
PageBytes(out, i) == SubSeq(out, i + 1, Min(i + PageLenAt(out, i), Len(out)))

\* The first byte of the page of each kind MODE SELECT(10) writes
KindCode(kind) ==
    CASE kind = "caching" -> 8 [] kind = "ctrl" -> 10 [] kind = "iec" -> 28
      [] OTHER -> 0

\* The starts of the pages of the response that are of that kind
KindStarts(out, kind) ==
    {ResponsePages(out)[k] : k \in
        {j \in DOMAIN ResponsePages(out) :
            At(out, ResponsePages(out)[j]) = KindCode(kind)}}

\* A MODE SENSE(10) for current values gives back, of each of those kinds
\* it reports, the page as the last MODE SELECT(10) sent it
RoundTrips(kinds) ==
    (/\ last.op = "mode_sense10" /\ CdbPcontrol(last.cdb) = 0
     /\ last.ret >= 0 /\ last.ret = last.offset) =>
        \A kind \in kinds :
            hist.by[1][kind] # <<>> =>
                \A i \in KindStarts(last.out, kind) :
                    PageBytes(last.out, i) = hist.by[1][kind]

\* C22: after a successful MODE SELECT(10) of the Caching, Control,
\* Informational Exceptions or vendor Unit Attention page with bytes X and
\* no later MODE SELECT of that page, a MODE SENSE(10) with pcontrol 0 on the
\* same device state returns that page with bytes equal to X
C22_SelectSenseRoundTrip == RoundTrips({"caching", "ctrl", "iec", "vs_ua"})

\* The same of the three pages whose stored array is as long as the page
C22_RoundTripButVendor == RoundTrips({"caching", "ctrl", "iec"})

\* MODE SENSE(10) CDBs asking for the changeable mask (pcontrol 1) and the
\* default values (pcontrol 2) of the pages pcodes, one page at a time, the
\* Control Extension sub-page, and all pages with and without sub-pages
MaskAndDefaultCdbs(pcodes) ==
    {MkSenseCdb(FALSE, FALSE, pc, c[1], c[2], 65535) :
        pc \in {1, 2},
        c \in {<<p, 0>> : p \in pcodes} \cup
              (IF 10 \in pcodes THEN {<<10, 1>>} ELSE {}) \cup
              (IF 63 \in pcodes THEN {<<63, 255>>} ELSE {})}

\* What those CDBs are answered now is what they were answered before any
\* MODE SELECT(10): with the pages as loaded and the device state as set up
UnalteredBySelect(pcodes) ==
    \A cdb \in MaskAndDefaultCdbs(pcodes) :
        SenseBytes(caching_m_pg, ctrl_m_pg, iec_m_pg, vs_ua_m_pg, dev, 1, cdb)
        = SenseBytes(caching_m_pg_init, ctrl_m_pg_init, iec_m_pg_init,
                     vs_ua_m_pg_init, <<NewDev(dev[1].pdt, FALSE)>>, 1, cdb)

\* C23: whatever MODE SELECT(10)s have succeeded, MODE SENSE(10) reports the
\* same default values (pcontrol 2) and the same changeable mask (pcontrol 1)
\* for every page and sub-page
C23_SelectKeepsDefaultsAndMask == UnalteredBySelect({0, 2, 8, 10, 28, 63})

\* The same of the pages other than the Caching page
C23_KeepsButCaching == UnalteredBySelect({0, 2, 10, 28})

\* The arrays the builder of the page with first byte code works from: the
\* stored page, the changeable mask with the number of header bytes it
\* leaves out, and the default page
BuilderArrays(code) ==
    CASE code = 2 ->
            [pg |-> disconnect_pg, hdr |-> 2,
             ch |-> SubSeq(disconnect_pg, 3, Len(disconnect_pg)),
             d |-> disconnect_pg]
      [] code = 8 ->
            [pg |-> caching_m_pg, hdr |-> 2, ch |-> ch_caching_m_pg,
             d |-> d_caching_m_pg]
      [] code = 10 ->
            [pg |-> ctrl_m_pg, hdr |-> 2, ch |-> ch_ctrl_m_pg, d |-> d_ctrl_m_pg]
      [] code = 74 ->
            [pg |-> ctrl_ext_m_pg, hdr |-> 4, ch |-> ch_ctrl_ext_m_pg,
             d |-> d_ctrl_ext_m_pg]
      [] code = 28 ->
            [pg |-> iec_m_pg, hdr |-> 2, ch |-> ch_iec_m_pg, d |-> d_iec_m_pg]
      [] OTHER ->
            [pg |-> vs_ua_m_pg, hdr |-> 2, ch |-> ch_vs_ua_m_pg,
             d |-> d_vs_ua_m_pg]

\* The number of bytes that builder writes for pcontrol, and the length it
\* returns
BuilderWrites(code, pcontrol) ==
    LET a == BuilderArrays(code)
    IN  Max(Len(a.pg), CASE pcontrol = 1 -> a.hdr + Len(a.ch)
                         [] pcontrol = 2 -> Len(a.d)
                         [] OTHER -> 0)

BuilderReturns(code) == Len(BuilderArrays(code).pg)

\* The first bytes of the pages sg_snt_resp_mode_sense10 emits for a CDB it
\* accepts, in order
EmittedCodes(cdb, pdt) ==
    CASE CdbPcode(cdb) = 63 -> ClaimedPageCodes(cdb, pdt)
      [] CdbPcode(cdb) = 10 /\ cdb[4] = 1 -> <<74>>
      [] OTHER -> <<CdbPcode(cdb)>>

\* A MODE SENSE(10) for one of the page codes pcodes with pcontrol 0, 1 or 2
\* that was answered whole is self-consistent: the walk from offset
\* 8 + block descriptor length by each page's own length visits the pages
\* emitted and ends at the mode data length plus 2, and no builder of an
\* emitted page wrote more bytes than the length it returned
SelfConsistent(pcodes) ==
    (/\ last.op = "mode_sense10" /\ CdbPcode(last.cdb) \in pcodes
     /\ CdbPcontrol(last.cdb) \in {0, 1, 2}
     /\ last.ret >= 8 /\ last.ret = last.offset) =>
        LET starts == ResponsePages(last.out)
            codes == EmittedCodes(last.cdb, dev[1].pdt)
        IN  /\ [k \in DOMAIN starts |-> At(last.out, starts[k])] = codes
            /\ WalkEnd(last.out, 8 + sg_get_unaligned_be16(last.out, 6))
                   = sg_get_unaligned_be16(last.out, 0) + 2
            /\ \A k \in DOMAIN codes :
                   BuilderWrites(codes[k], CdbPcontrol(last.cdb))
                       <= BuilderReturns(codes[k])

\* C24: every successful untruncated MODE SENSE(10) response with pcontrol
\* 0, 1 or 2 is self-consistent: walking from offset 8 + bd_len by each
\* page's length (page length byte + 2, or two byte page length + 4 with SPF)
\* visits exactly the emitted pages and ends exactly at mode data length + 2,
\* and no page builder writes more bytes than the length it returns
C24_ResponseSelfConsistent == SelfConsistent({0, 2, 8, 10, 28, 63})

\* The same of the responses without the vendor Unit Attention page
C24_ConsistentButVendor == SelfConsistent({2, 8, 10, 28})

\* C25: sg_snt_resp_mode_select10 never reads its 512 byte local copy at an
\* index of 512 or more, nor the caller's parameter list beyond
\* min(do_len, parameter list length), whatever the block descriptor length
\* and page length fields hold
C25_SelectReadsInBounds ==
    last.op = "mode_select10" =>
        /\ last.aux.top < SG_PT_C_MAX_MSELECT_SZ
        /\ last.aux.used <= Min(Len(last.dop), sg_get_unaligned_be16(last.cdb, 7))

\* The same of the calls whose block descriptor length leaves the four
\* bytes at the page's offset inside the local copy
C25_InBoundsForShortDescriptors ==
    (last.op = "mode_select10" /\ last.aux.used > 0
     /\ last.aux.off + 3 < SG_PT_C_MAX_MSELECT_SZ) =>
        /\ last.aux.top < SG_PT_C_MAX_MSELECT_SZ
        /\ last.aux.used <= Min(Len(last.dop), sg_get_unaligned_be16(last.cdb, 7))

\* C26: every byte sg_snt_resp_rluns copies out comes from an index below
\* 256 of its internal buffer and has been initialised by the function, so
\* the reserved bytes of the response (bytes 4 to 7 of the header and bytes
\* 2 to 7 of each LUN entry) are zero
C26_RlunsBytesInitialised ==
    (last.op = "rluns" /\ Len(last.out) > 0) =>
        /\ Len(last.out) <= rl_din_sz
        /\ \A i \in 0..(Len(last.out) - 1) :
              (i \in 4..7 \/ (i >= 8 /\ (i - 8) % 8 >= 2)) => At(last.out, i) = 0

\* The response builders the claim names
CopyingOps == {"mode_sense10", "inq", "rluns", "rep_opcodes"}

\* C27: on success the value each response builder returns is the number of
\* bytes it copied into the output buffer, for every allocation length; with
\* allocation length 0 it returns 0
C27_ReturnIsBytesCopied ==
    (Accepted /\ last.op \in CopyingOps) =>
        /\ last.ret = Len(last.out)
        /\ AllocLenField(last.cdb) = 0 => last.ret = 0

\* The same of MODE SENSE(10) and REPORT SUPPORTED OPERATION CODES, and of
\* INQUIRY and REPORT LUNS when the allocation length they read is not 0
C27_ReturnIsCopiedUnlessZero ==
    (/\ Accepted /\ last.op \in CopyingOps
     /\ last.op = "inq" => AllocLenField(last.cdb) > 0
     /\ last.op = "rluns" => RlunsAllocLen(last.cdb) > 0) =>
        /\ last.ret = Len(last.out)
        /\ AllocLenField(last.cdb) = 0 => last.ret = 0

\* The first designator decode_dev_ids reported spans the whole region and
\* is taken as NAA (type 3) in binary (code set 1)
FirstSpansRegion ==
    /\ last.resp.pre_spc
    /\ Len(last.out) >= 1
    /\ last.out[1].desig_type = 3 /\ last.out[1].c_set = 1
    /\ last.out[1].ipo = 0 /\ last.out[1].i_len = last.mx

\* C28: decode_dev_ids and export_dev_ids treat a designator region whose
\* third byte is not zero as one pre-SPC-2 designator spanning the whole
\* region, of type NAA (3) and code set binary (1): exactly one designator
\* is decoded and no further designators are walked
C28_PreSpcSingleDesignator ==
    (last.op = "decode_dev_ids" /\ At(last.dop, 2) # 0) =>
        /\ FirstSpansRegion
        /\ Len(last.out) = 1
        /\ export_dev_ids(last.dop, last.mx).lines
               = ExportDesig(last.dop, 0, last.mx, 15, 1, 0, 3).lines

\* What decode_dev_ids does when the third byte is above 2: the first
\* designator reported is the whole region as NAA binary
C28_PreSpcFirstDesignator ==
    (last.op = "decode_dev_ids" /\ At(last.dop, 2) > 2) => FirstSpansRegion

\* decode_dev_ids had a region with third byte 3 and, after the designator
\* spanning the region, went on to decode a descriptor beyond offset 16
C28_WalkedOn ==
    /\ last.op = "decode_dev_ids" /\ At(last.dop, 2) = 3
    /\ Len(last.out) = 2 /\ last.out[2].off > 16

\* C29: get_vpd_page_info gives, for every page number 0 to 255 and every
\* device type, NULL or a row of the table whose page number is the one
\* asked for; for pages 0xb0 to 0xbf the row's device type is the one given
\* or the class it decays to
C29_PageInfoTotal ==
    last.op = "get_vpd_page_info" =>
        /\ last.out = get_vpd_page_info(last.aux.vpd, last.aux.pdt,
                                        last.aux.decay_pdt)
        /\ \/ last.out = EndRow
           \/ /\ \E k \in 1..(Len(t10_vpd_pg) - 1) : last.out = t10_vpd_pg[k]
              /\ last.out.value = last.aux.vpd
              /\ last.aux.vpd \in 176..191 =>
                    last.out.pdt \in {last.aux.pdt, last.aux.decay_pdt}

\* Page 0xb1 was asked of an automation/drive interface device that decays
\* to the tape class: the disk row was passed over for the tape row
C29_Witness ==
    /\ last.op = "get_vpd_page_info"
    /\ last.aux.vpd = 177 /\ last.aux.pdt = 18 /\ last.aux.decay_pdt = 1
    /\ last.out = Row(177, 1, "mas")

\* Every loop is left
LoopsEnd == <>(last.op = "done")

\* The scans of the opcode table never go past the sentinel row
ScansStopAtSentinel ==
    [](/\ last.op \in {"scan", "scan all"} => last.aux.k <= Len(sg_opcode_info_arr)
       /\ (last.op = "done" /\ last.aux.loop \in {"scan", "scan all"}) =>
             /\ last.aux.k <= Len(sg_opcode_info_arr)
             /\ last.aux.why = "sentinel" =>
                   sg_opcode_info_arr[last.aux.k].flags = SENTINEL_FLAGS)

\* Every pass of the page loop moves the offset on by at least one byte
InhexAdvances ==
    [][(last.op = "inhex" /\ last'.op = "inhex") =>
          last'.aux.off >= last.aux.off + 1]_vars

\* The pages are decoded in strictly ascending order
DecodedAscending ==
    [](last.op \in {"inhex", "done"} /\ "decoded" \in DOMAIN last.aux =>
          \A i, j \in DOMAIN last.aux.decoded :
              i < j => last.aux.decoded[i] < last.aux.decoded[j])

\* The number of the page decoded last when the page loop was left
LastDecoded ==
    IF last.aux.decoded = <<>> THEN -1
    ELSE last.aux.decoded[Len(last.aux.decoded)]

\* As stated: the fill loop makes max_nsid passes; the page loop goes past
\* no page whose number is not above that of the page decoded before it and
\* is left at the end of the buffer or at such a page
LoopEndsAsStated ==
    [](last.op = "done" =>
          /\ last.aux.loop = "fill" => last.aux.k = last.aux.max_nsid
          /\ last.aux.loop = "inhex" =>
                /\ \A i \in DOMAIN last.aux.seen :
                      last.aux.seen[i].pn > last.aux.seen[i].dec
                /\ \/ last.aux.off >= last.aux.in_len
                   \/ At(last.dop, last.aux.off + 1) <= LastDecoded)

\* As the code has it: the fill loop makes num passes, max_nsid of them or
\* none by select_report and nsid; the page loop goes past a page that is
\* not the one asked for whatever its number, past no other page whose
\* number is not above prev_pn, the number of the last page that was the one
\* asked for (or any, when none was), and is left at the end of the buffer
\* or at such a page
LoopEndsAmended ==
    [](last.op = "done" =>
          /\ last.aux.loop = "fill" =>
                /\ last.aux.k = last.aux.num
                /\ last.aux.num \in {0, last.aux.max_nsid}
          /\ last.aux.loop = "inhex" =>
                /\ \A i \in DOMAIN last.aux.seen :
                      \/ last.aux.seen[i].what = "filtered"
                      \/ last.aux.seen[i].pn > last.aux.seen[i].prev_pn
                /\ \/ last.aux.off >= last.aux.in_len /\ last.aux.why = "end"
                   \/ /\ last.aux.why = "not ascending"
                      /\ At(last.dop, last.aux.off + 1) <= last.aux.prev_pn
                      /\ last.aux.page_given =>
                            At(last.dop, last.aux.off + 1) = last.aux.vpd_pn)

\* C30: every loop of the core terminates: the scans of the opcode table
\* stop at the sentinel row, the fill loop of REPORT LUNS makes exactly
\* max_nsid passes, and svpd_inhex_decode_all moves its offset on by at
\* least one byte per pass, stops at the end of the buffer or at the first
\* page whose number is not greater than that of the page decoded before,
\* and so decodes pages in strictly ascending order
C30_LoopsAsStated ==
    /\ LoopsEnd /\ ScansStopAtSentinel /\ InhexAdvances /\ DecodedAscending
    /\ LoopEndsAsStated

\* C30 as the code has it: the same, the fill loop making num passes and the
\* page loop stopping by prev_pn after the page filter
C30_LoopsTerminate ==
    /\ LoopsEnd /\ ScansStopAtSentinel /\ InhexAdvances /\ DecodedAscending
    /\ LoopEndsAmended

\* The page loop, asked for page 0x83, decoded it, went past a page 0x80 that
\* came after it and stopped at the second page 0x83
C30_Witness ==
    /\ last.op = "done" /\ last.aux.loop = "inhex"
    /\ last.aux.why = "not ascending"
    /\ last.aux.decoded = <<131>>
    /\ Len(last.aux.seen) = 2
    /\ last.aux.seen[2].pn = 128 /\ last.aux.seen[2].what = "filtered"

====
